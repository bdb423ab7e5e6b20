------------------------------ MODULE NapAudit ------------------------------
(***************************************************************************)
(* The audit of a business's name, address and phone (engines/nap): the    *)
(* confirmed profile is rendered once for people and folded once for       *)
(* comparison, a listing is folded the same way, and every difference      *)
(* comes with a hint that tells the owner what to paste where.  Here the   *)
(* owner follows the hints one at a time and the audit runs again.         *)
(*                                                                         *)
(* A text is the parts the rules tell apart: an address line is a name,    *)
(* the numbers after it and its annotations (a floor, a wing), in the      *)
(* order they are written; a name is its words and a legal form; spelling, *)
(* case and notation never differ.  The profile and the listing use one    *)
(* group of fields at a time, the rest are empty: the groups share nothing *)
(* but the sum of the score.                                               *)
(***************************************************************************)
EXTENDS Naturals, Sequences, FiniteSets, SequencesExt, FiniteSetsExt

CONSTANTS
    Bare,           \* house numbers that are one number, or have a letter
    Ranges,         \* house numbers that are a range: "12-14"
    Floors,         \* annotations with a digit in them: "3. OG"
    Wings,          \* annotations without: "Hinterhaus"
    Variants,       \* the different names, streets, codes, lines a field may hold
    WeekDays,
    MaxSegments,    \* bound: segments of a listing's opening hours
    MaxParts        \* bound: numbers and annotations of an address

VARIABLES
    confirmed,      \* the RawNap of the confirmed profile
    listing,        \* what the directory shows
    findings        \* NapAuditResult.findings

napVars == <<confirmed, listing, findings>>

-----------------------------------------------------------------------------
(* Texts *)

Empty == <<>>
OneOf(S) == {<<s>> : s \in S}
Maybe(S) == {Empty} \cup OneOf(S)
OrElse(text, other) == IF text # Empty THEN text ELSE other

\* A value nobody can read: a postcode of four digits, no phone number, no address.
NotReadable == <<"not", "readable">>

_MAX_ANNOTATIONS == 3

\* "Q7 12, Hinterhaus, 3. OG": a name, the numbers <<7, 12>>, two annotations.
Lists(S, most) == UNION {[1 .. n -> S] : n \in 0 .. most}
Notes          == Lists(Floors \cup Wings, _MAX_ANNOTATIONS)
HouseNumbers   == Bare \cup Ranges
StreetTexts    == [name : Variants, numbers : Lists(HouseNumbers, MaxParts), notes : Notes]
NumberTexts    == [number : HouseNumbers, notes : Notes]
NameTexts      == [words : Maybe(Variants), form : BOOLEAN]

\* An address, and how often it says "mailto:" first.
EmailTexts == [address : Variants, mailto : 0 .. 2]

Segments == [days : SUBSET WeekDays, times : SUBSET {"morning"}, closed : BOOLEAN]
HoursTexts == UNION {[1 .. n -> Segments] : n \in 1 .. MaxSegments}

Nobody == [ legal_name |-> Empty, trading_name |-> Empty, street |-> Empty,
            house_number |-> Empty, postcode |-> Empty, city |-> Empty, phone |-> Empty,
            email |-> Empty, opening_hours |-> Empty ]

-----------------------------------------------------------------------------
(* normalise.py *)

\* A name is compared without its legal form; one that is nothing else is not compared at all.
normalise_business_name(text) == IF text = Empty THEN Empty ELSE text[1].words

\* A faulty variant: what is left of an address has to have a letter.
HasALetter(number) == FALSE

_keeps_a_real_address(number) == number \in Bare

\* strip_address_annotation: a line with a letter left, or a single number, can lose its
\* annotations; a range is neither and keeps the first, whose letters then let the others go.
Kept(text) == IF _keeps_a_real_address(text.number) \/ text.notes = <<>> THEN 0 ELSE 1

strip_number(text) ==
    IF text = Empty THEN Empty ELSE <<[text[1] EXCEPT !.notes = SubSeq(@, 1, Kept(text[1]))]>>

StrippedNotes(street, number) ==
    IF street # Empty /\ street[1].notes # <<>> THEN street[1].notes
    ELSE IF number = Empty THEN <<>>
    ELSE SubSeq(number[1].notes, Kept(number[1]) + 1, Len(number[1].notes))

\* split_street_and_number: the last number of the line, stripped of its annotations.
inline_number(street) ==
    IF street = Empty \/ street[1].numbers = <<>> THEN Empty
    ELSE <<[number |-> Last(street[1].numbers), notes |-> <<>>]>>
street_name(street) ==
    IF street = Empty THEN Empty
    ELSE <<[name |-> street[1].name, numbers |-> Front(street[1].numbers)]>>

\* normalise_house_number joins all the digits, those of a floor included.
normalise_house_number(text) ==
    IF text = Empty THEN Empty
    ELSE <<[number |-> text[1].number, floors |-> Range(text[1].notes) \cap Floors]>>

Readable(text) == IF text = NotReadable THEN Empty ELSE text

\* One "mailto:" is taken off.
normalise_email(text) ==
    IF text \in {Empty, NotReadable} THEN Empty
    ELSE <<[text[1] EXCEPT !.mailto = IF @ = 0 THEN 0 ELSE @ - 1]>>

\* phone_extension_difference: the same line, one of the two with an extension.
phone_extension_difference(a, b) ==
    a # b /\ a[1].line = b[1].line /\ (a[1].ext = "" \/ b[1].ext = "")

\* normalise_opening_hours: days announced alone wait for the times that follow,
\* times alone belong to the days before them.
ReadSegment(read, segment) ==
    LET announced == segment.days # {} /\ segment.times = {} /\ ~segment.closed
        current   == IF segment.days # {} THEN segment.days \cup read.pending
                     ELSE IF read.pending # {} THEN read.pending ELSE read.previous
        says      == segment.days # {} \/ segment.times # {} \/ segment.closed
    IN  IF ~(read.ok /\ says) \/ current = {}
        THEN [read EXCEPT !.ok = FALSE]
        ELSE IF announced THEN [read EXCEPT !.pending = current]
        ELSE [ok |-> TRUE, pending |-> {}, previous |-> current,
              open |-> IF segment.times = {} THEN read.open ELSE read.open \cup current]

normalise_opening_hours(text) ==
    LET read == FoldLeft(ReadSegment, [ok |-> TRUE, pending |-> {}, previous |-> {}, open |-> {}],
                         text)
    IN  IF read.ok /\ read.open # {} THEN <<read.open>> ELSE Empty

comparison_form(raw) ==
    [ raw EXCEPT
        !.legal_name    = normalise_business_name(@),
        !.trading_name  = normalise_business_name(@),
        !.street        = street_name(@),
        !.house_number  = normalise_house_number(
                              OrElse(strip_number(@), inline_number(raw.street))),
        !.postcode      = Readable(@), !.phone = Readable(@), !.email = normalise_email(@),
        !.opening_hours = normalise_opening_hours(@) ]

\* _display_address: the annotation rides on the house number, if there is one.
_display_address(raw) ==
    LET notes  == StrippedNotes(raw.street, raw.house_number)
        number == OrElse(strip_number(raw.house_number), inline_number(raw.street))
    IN  [ house_number |-> IF number = Empty THEN Empty
                           ELSE <<[number[1] EXCEPT !.notes = @ \o notes]>>,
          street       |-> IF raw.street = Empty THEN Empty
                           ELSE <<[name    |-> raw.street[1].name,
                                   numbers |-> street_name(raw.street)[1].numbers,
                                   notes   |-> IF number = Empty THEN notes ELSE <<>>]>> ]

normalise_nap(raw) == [raw EXCEPT !.street = _display_address(raw).street,
                                  !.house_number = _display_address(raw).house_number,
                                  !.email = OrElse(normalise_email(@), @)]

-----------------------------------------------------------------------------
(* audit.py *)

_MISMATCH_SEVERITY(field) ==
    CASE field \in {"postcode", "phone"} -> "error"
      [] field = "opening_hours"         -> "info"
      [] OTHER                           -> "warn"

_PENALTY(severity) == CASE severity = "error" -> 15 [] severity = "warn" -> 5 [] OTHER -> 0

consistency_score(found) ==
    LET Lost(severity) == _PENALTY(severity) * Cardinality({f \in found : f.severity = severity})
        lost == Lost("error") + Lost("warn") + Lost("info")
    IN  IF lost > 100 THEN 0 ELSE 100 - lost

Finding(field, value, kind, severity) ==
    [field |-> field, value |-> value, kind |-> kind, severity |-> severity]

_matches(field, canonical, found) ==
    IF field = "city" THEN canonical[1] \subseteq found[1] \/ found[1] \subseteq canonical[1]
    ELSE canonical = found

\* The names of the profile are accepted in either field.  Names are shown as display and shown
\* have them, and compared as canonical and found have them.
_name_findings(display, canonical, shown, found) ==
    LET names     == {"legal_name", "trading_name"}
        accepted  == {canonical[n] : n \in names} \ {Empty}
        preferred == IF display.trading_name # Empty THEN "trading_name" ELSE "legal_name"
    IN  IF accepted = {} THEN {}
        ELSE IF \A n \in names : shown[n] = Empty
        THEN {Finding(preferred, display[preferred], "missing", "info")}
        ELSE {Finding(n, OrElse(display[n], display[preferred]), "mismatch", "warn") :
                 n \in {n \in names : shown[n] # Empty /\ found[n] \notin accepted}}

_MISSING_REPORTED == {"street", "house_number", "postcode", "city", "phone"}
_COMPARED_FIELDS  == _MISSING_REPORTED \cup {"email", "opening_hours"}

\* value is the profile's as displayed, canonical and found are folded.
_field_finding(field, value, canonical, raw, found) ==
    IF canonical = Empty THEN {}
    ELSE IF raw = Empty
    THEN IF field \in _MISSING_REPORTED THEN {Finding(field, value, "missing", "info")} ELSE {}
    ELSE IF found = Empty
    THEN IF field = "opening_hours" THEN {}
         ELSE {Finding(field, value, "unverifiable",
                       IF field = "postcode" THEN "error" ELSE "warn")}
    ELSE IF _matches(field, canonical, found) THEN {}
    ELSE IF field = "phone" /\ phone_extension_difference(canonical, found)
    THEN {Finding(field, value, "extension", "info")}
    ELSE {Finding(field, value, "mismatch", _MISMATCH_SEVERITY(field))}

\* What of a listing's address counts as there at all.
FoundRaw(shown, field) ==
    CASE field = "street"       -> street_name(shown.street)
      [] field = "house_number" -> OrElse(strip_number(shown.house_number),
                                          inline_number(shown.street))
      [] OTHER                  -> shown[field]

_annotation_note(display, shown) ==
    LET notes == StrippedNotes(shown.street, shown.house_number)
    IN  IF notes \in {<<>>, StrippedNotes(display.street, display.house_number)} THEN {}
        ELSE {Finding("street", Empty, "annotation", "info")}

\* What the audit says of one compared field.
FieldFindings(raw, shown, field) ==
    _field_finding(field, normalise_nap(raw)[field], comparison_form(raw)[field],
                   FoundRaw(shown, field), comparison_form(shown)[field])

NameFindings(raw, shown) ==
    _name_findings(normalise_nap(raw), comparison_form(raw), shown, comparison_form(shown))

audit_nap(raw, shown) ==
    LET names  == NameFindings(raw, shown)
        fields == UNION {FieldFindings(raw, shown, field) : field \in _COMPARED_FIELDS}
    IN  names \cup fields \cup
        ( IF \E f \in fields : f.field \in {"street", "house_number"}
          THEN {} ELSE _annotation_note(normalise_nap(raw), shown) )

-----------------------------------------------------------------------------
(* The profile, the listing and its owner *)

With(fields, values) == [f \in DOMAIN Nobody |-> IF f \in fields THEN values[f] ELSE Nobody[f]]

PhoneTexts == [line : Variants, ext : {"", "0"}]

NameFields == {With({"legal_name", "trading_name"}, v) :
                 v \in [{"legal_name", "trading_name"} -> Maybe(NameTexts)]}

\* The numbers and annotations of an address.
AddressParts(v) ==
    (IF v.street = Empty THEN 0 ELSE Len(v.street[1].numbers) + Len(v.street[1].notes))
    + (IF v.house_number = Empty THEN 0 ELSE 1 + Len(v.house_number[1].notes))
Addresses == {With({"street", "house_number"}, v) :
                 v \in {v \in [street : Maybe(StreetTexts), house_number : Maybe(NumberTexts)] :
                           AddressParts(v) <= MaxParts}}
Places    == {With({"postcode", "city"}, v) :
                 v \in [postcode : Maybe(Variants) \cup {NotReadable},
                        city     : Maybe(SUBSET Variants \ {{}})]}
Contacts  == {With({"phone", "email"}, v) :
                 v \in [phone : Maybe(PhoneTexts) \cup {NotReadable},
                        email : Maybe(EmailTexts) \cup {NotReadable}]}
Hours     == {With({"opening_hours"}, v) : v \in [opening_hours : HoursTexts]}

NapInit ==
    /\ \E group \in {NameFields, Addresses, Places, Contacts, Hours} :
          confirmed \in group /\ listing \in group \cup {Nobody}
    /\ findings = audit_nap(confirmed, listing)

\* The hint is pasted into the field it names, and the next audit reads the result.
Follow(finding) ==
    /\ finding.kind # "annotation"
    /\ listing' = [listing EXCEPT ![finding.field] = finding.value]
    /\ findings' = audit_nap(confirmed, listing')
    /\ UNCHANGED confirmed

NapNext == \E finding \in findings : Follow(finding)

NapSpec == NapInit /\ [][NapNext]_napVars

-----------------------------------------------------------------------------
(* Properties *)

\* Types of the audit's inputs and result (contract.py NapFieldSet, NapFinding).
NapTypeOK ==
    /\ DOMAIN confirmed = DOMAIN Nobody /\ DOMAIN listing = DOMAIN Nobody
    /\ \A f \in findings : f.field \in DOMAIN Nobody /\ f.severity \in {"error", "warn", "info"}

\* A floor written behind a street whose number is a range is displayed behind the range, where
\* the comparison takes its digit for part of the number.
RangeWithFloor(raw) ==
    LET number == OrElse(strip_number(raw.house_number), inline_number(raw.street))
        notes  == StrippedNotes(raw.street, raw.house_number)
    IN  /\ number # Empty /\ number[1].number \notin Bare /\ number[1].notes = <<>>
        /\ notes # <<>> /\ notes[1] \in Floors

\* What a profile can say that no listing can say back: a name that is nothing but a legal form,
\* a street whose name ends in a number (it is split off once more), the floor behind a range, an
\* email address with two prefixes.  The engine asks for it again however often it is pasted.
NeverRight(raw, finding) ==
    \/ finding.field \in {"legal_name", "trading_name"}
       /\ normalise_business_name(finding.value) = Empty
    \/ finding.field = "street" /\ street_name(raw.street)[1].numbers # <<>>
    \/ finding.field = "house_number" /\ RangeWithFloor(raw)
    \/ finding.field = "email" /\ normalise_email(raw.email)[1].mailto > 0

\* A hint that is followed helps: the score does not drop, and the same field is not complained
\* about again (audit.py:121, "Set the ... to"), but for what no listing can say back.
HintsHelp ==
    [][ \A finding \in findings :
          /\ finding.kind # "annotation"
          /\ listing' = [listing EXCEPT ![finding.field] = finding.value]
          => \/ NeverRight(confirmed, finding)
             \/ /\ consistency_score(findings') >= consistency_score(findings)
                /\ \A f \in findings' :
                      f.field = finding.field => f.kind = "annotation" ]_napVars

=============================================================================
