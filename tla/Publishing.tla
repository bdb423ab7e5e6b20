------------------------------ MODULE Publishing ------------------------------
(***************************************************************************)
(* The two ways a finished post leaves the system, over one actions table: *)
(* EXPORT in a drive (agents/nodes) and the publish button on the calendar *)
(* (social_post_service, api/posts).  Both ask services/publish_cap for    *)
(* this week's headroom first and then go through actuate() (Actuation).   *)
(*                                                                         *)
(* One business, one run: a rendering per channel.  EXPORT's key is the    *)
(* content of the rendering, so a channel stands for it; the calendar's is *)
(* the post's id.  A request holds one database session: what it loaded is *)
(* what it compares with, and its write is not conditional on the row.     *)
(***************************************************************************)
EXTENDS Actuation, FiniteSets, Functions, Sequences

CONSTANTS
    Channels,     \* the channels the run has renderings for
    Posts,        \* ids a calendar post may be given
    WeeklyCap,    \* business_weekly_publish_cap
    MaxRequests,  \* bound: how many requests and drives arrive
    MaxRestarts   \* bound: how often the deployment restarts

ASSUME PublishingAssumption ==
    /\ Keys = Channels \union Posts
    /\ Channels # {} /\ Posts # {} /\ IsFiniteSet(Channels)
    /\ Channels \intersect Posts = {}
    /\ WeeklyCap \in Nat
    /\ MaxRequests \in Nat
    /\ MaxRestarts \in Nat

VARIABLES
    posts,       \* the social_posts table
    request,     \* the handler or EXPORT node each caller is running
    recent,      \* the rows created within the last seven days, oldest first
    approved,    \* the run's checkpoint names an approver
    actuator,    \* what the deployment resolves social.post to
    arrivals,    \* how many requests arrived
    restarts

vars == <<actions, attempt, calls, landed, posts, request, recent, approved,
          actuator, arrivals, restarts>>

PUBLISHABLE_FROM == {"queued", "scheduled", "failed", "refused"}

PostStatuses == {"absent", "published", "cancelled"} \union PUBLISHABLE_FROM

SocialPosts == [status : PostStatuses, channel : Channels]

Kinds == {"none", "queue", "schedule", "cancel", "publish", "export"}

Requests ==
    [kind : Kinds,
     stage : {"idle", "loaded", "allowed"},
     post : Posts,
     loaded : PostStatuses,         \* the status this session read
     existing : SUBSET Channels,    \* queue_posts: channels already on the calendar
     pieces : SUBSET Channels,      \* EXPORT: what is still to be sent
     believed : Nat]                \* rows of the week it knows of (auxiliary)

NoRequest ==
    [kind |-> "none", stage |-> "idle", post |-> CHOOSE p \in Posts : TRUE,
     loaded |-> "absent", existing |-> {}, pieces |-> {}, believed |-> 0]

SetRequest(c, r) == request' = [request EXCEPT ![c] = r]

End(c) == SetRequest(c, NoRequest)

At(c, kind, stage) == request[c].kind = kind /\ request[c].stage = stage

Arrive(c) ==
    /\ request[c].kind = "none"
    /\ arrivals < MaxRequests
    /\ arrivals' = arrivals + 1

-----------------------------------------------------------------------------
(* services/publish_cap and the ledger's count.                             *)

\* Faulty variant: attempts nobody settled are not counted.
SettledOnly ==
    Cardinality({i \in DOMAIN recent : actions[recent[i]].status = "succeeded"})

Committed ==
    Cardinality({i \in DOMAIN recent :
                   actions[recent[i]].status \in {"succeeded", "in_flight"}})

headroom == IF Committed < WeeklyCap THEN WeeklyCap - Committed ELSE 0

-----------------------------------------------------------------------------
(* The calendar: queue, schedule, cancel.                                   *)

\* queue_from_run, up to the read of what is queued already.
QueueFromRun(c) ==
    /\ Arrive(c)
    /\ approved
    /\ SetRequest(c, [NoRequest EXCEPT
         !.kind = "queue", !.stage = "loaded",
         !.existing = {posts[p].channel :
                         p \in {q \in Posts : posts[q].status \notin {"absent", "cancelled"}}}])
    /\ UNCHANGED <<actuationVars, posts, recent, approved, actuator, restarts>>

\* ... and the insert of every channel that was not.
queue_posts(c) ==
    LET free == {p \in Posts : posts[p].status = "absent"}
        missing == Channels \ request[c].existing
    IN
    /\ At(c, "queue", "loaded")
    /\ \E status \in {"queued", "scheduled"}, id \in Injection(missing, free) :
         posts' = [p \in Posts |->
                     IF p \in Range(id)
                     THEN [status |-> status,
                           channel |-> CHOOSE channel \in missing : id[channel] = p]
                     ELSE posts[p]]
    /\ End(c)
    /\ UNCHANGED <<actuationVars, recent, approved, actuator, arrivals, restarts>>

\* schedule_post and cancel_post load the row and refuse a published one ...
LoadForEdit(c, p, kind) ==
    /\ Arrive(c)
    /\ posts[p].status \notin {"absent", "published"}
    /\ SetRequest(c, [NoRequest EXCEPT
         !.kind = kind, !.stage = "loaded", !.post = p, !.loaded = posts[p].status])
    /\ UNCHANGED <<actuationVars, posts, recent, approved, actuator, restarts>>

\* The session flushes a status only if it differs from the one it loaded.
Write(c, status) ==
    posts' = IF status = request[c].loaded
             THEN posts
             ELSE [posts EXCEPT ![request[c].post].status = status]

\* ... and then write their own status.
schedule_post(c) ==
    /\ At(c, "schedule", "loaded")
    /\ \E status \in {"queued", "scheduled"} : Write(c, status)
    /\ End(c)
    /\ UNCHANGED <<actuationVars, recent, approved, actuator, arrivals, restarts>>

cancel_post(c) ==
    /\ At(c, "cancel", "loaded")
    /\ Write(c, "cancelled")
    /\ End(c)
    /\ UNCHANGED <<actuationVars, recent, approved, actuator, arrivals, restarts>>

-----------------------------------------------------------------------------
(* The publish button.                                                      *)

LoadForPublish(c, p) ==
    /\ Arrive(c)
    /\ posts[p].status \in PUBLISHABLE_FROM
    /\ SetRequest(c, [NoRequest EXCEPT
         !.kind = "publish", !.stage = "loaded", !.post = p, !.loaded = posts[p].status])
    /\ UNCHANGED <<actuationVars, posts, recent, approved, actuator, restarts>>

\* Over the cap the post keeps its status; with no actuator it is refused.
CountForPublish(c) ==
    /\ At(c, "publish", "loaded")
    /\ IF headroom > 0 /\ actuator # "none"
       THEN /\ SetRequest(c, [request[c] EXCEPT !.stage = "allowed", !.believed = Committed])
            /\ UNCHANGED posts
       ELSE /\ IF headroom = 0 THEN UNCHANGED posts ELSE Write(c, "refused")
            /\ End(c)
    /\ UNCHANGED <<actuationVars, recent, approved, actuator, arrivals, restarts>>

\* Faulty variant: a simulated success is recorded as the real one.
RecordOutcomeUnseen(c) ==
    LET outcome == attempt[c].outcome IN
    /\ At(c, "publish", "allowed")
    /\ attempt[c].stage = "returned"
    /\ Write(c, IF outcome.status = "succeeded" THEN "published" ELSE outcome.status)
    /\ End(c)
    /\ Forget(c)
    /\ UNCHANGED <<recent, approved, actuator, arrivals, restarts>>

\* What actuate() returned becomes the post's status; a simulated success
\* leaves it where it was.
RecordOutcome(c) ==
    LET outcome == attempt[c].outcome IN
    /\ At(c, "publish", "allowed")
    /\ attempt[c].stage = "returned"
    /\ Write(c, CASE outcome.status # "succeeded" -> outcome.status
                  [] outcome.status = "succeeded" /\ ~outcome.fake -> "published"
                  [] OTHER -> request[c].loaded)
    /\ End(c)
    /\ Forget(c)
    /\ UNCHANGED <<recent, approved, actuator, arrivals, restarts>>

-----------------------------------------------------------------------------
(* EXPORT: every rendering of an approved run, cut to the week's headroom.  *)

CountForExport(c) ==
    /\ Arrive(c)
    /\ approved
    /\ actuator # "none"
    /\ \E pieces \in SUBSET Channels :
         /\ Cardinality(pieces) = IF Cardinality(Channels) <= headroom
                                  THEN Cardinality(Channels) ELSE headroom
         /\ SetRequest(c, [NoRequest EXCEPT
              !.kind = "export", !.stage = "allowed",
              !.pieces = pieces, !.believed = Committed])
    /\ UNCHANGED <<actuationVars, posts, recent, approved, actuator, restarts>>

\* One dead destination costs that destination; the next piece is sent.
NextPiece(c) ==
    /\ At(c, "export", "allowed")
    /\ attempt[c].stage \in {"returned", "raised"}
    /\ Forget(c)
    /\ UNCHANGED <<posts, request, recent, approved, actuator, arrivals, restarts>>

EndExport(c) ==
    /\ At(c, "export", "allowed")
    /\ request[c].pieces = {}
    /\ attempt[c].stage = "none"
    /\ End(c)
    /\ UNCHANGED <<actuationVars, posts, recent, approved, actuator, arrivals, restarts>>

-----------------------------------------------------------------------------
(* actuate(), called by either.                                             *)

\* The row a claim inserts is one of this week's, and its caller knows of it.
CountClaimed(c, k) ==
    LET inserted == actions[k].status = "absent" IN
    /\ recent' = IF inserted THEN Append(recent, k) ELSE recent
    /\ SetRequest(c, [request[c] EXCEPT
         !.pieces = @ \ {k}, !.believed = @ + (IF inserted THEN 1 ELSE 0)])

ClaimKey(c) ==
    /\ request[c].stage = "allowed"
    /\ \/ /\ request[c].kind = "publish"
          /\ Claim(c, request[c].post, TRUE)
          /\ CountClaimed(c, request[c].post)
       \/ /\ request[c].kind = "export"
          /\ \E piece \in request[c].pieces :
               Claim(c, piece, approved) /\ CountClaimed(c, piece)
    /\ UNCHANGED <<posts, approved, actuator, arrivals, restarts>>

Act(c) ==
    /\ request[c].stage = "allowed"
    /\ Perform(c, actuator = "fake") \/ Settle(c)
    /\ UNCHANGED <<posts, request, recent, approved, actuator, arrivals, restarts>>

\* EXPORT counts a store that raised as a failed piece ...
ActRaises(c) ==
    /\ At(c, "export", "allowed")
    /\ StoreFails(c)
    /\ IF attempt[c].stage = "none"
       THEN \E piece \in request[c].pieces :
              SetRequest(c, [request[c] EXCEPT !.pieces = @ \ {piece}])
       ELSE UNCHANGED request
    /\ UNCHANGED <<posts, recent, approved, actuator, arrivals, restarts>>

\* Faulty variant: the attempt outlives the request that made it.
RollBackAlone(c) ==
    /\ request[c].kind \notin {"none", "export"}
    /\ attempt[c].stage # "claimed"
    /\ End(c)
    /\ UNCHANGED <<actuationVars, posts, recent, approved, actuator, arrivals, restarts>>

\* ... and a calendar request is rolled back with its session, be it at the
\* claim, at the settle or at its own commit.
RollBack(c) ==
    /\ request[c].kind \notin {"none", "export"}
    /\ attempt[c].stage # "claimed"
    /\ End(c)
    /\ Forget(c)
    /\ UNCHANGED <<posts, recent, approved, actuator, arrivals, restarts>>

-----------------------------------------------------------------------------

\* REVIEW's interrupt is answered (RunLifecycle).
Approve ==
    /\ ~approved
    /\ approved' = TRUE
    /\ UNCHANGED <<actuationVars, posts, request, recent, actuator, arrivals, restarts>>

\* Seven days have passed since the oldest of them was created.
Age ==
    /\ recent # <<>>
    /\ recent' = Tail(recent)
    /\ UNCHANGED <<actuationVars, posts, request, approved, actuator, arrivals, restarts>>

\* Every request dies with its uncommitted session; the deployment may come
\* back with another publisher configured.
Restart ==
    /\ restarts < MaxRestarts
    /\ restarts' = restarts + 1
    /\ actuator' \in {"none", "fake", "real"}
    /\ request' = [c \in Callers |-> NoRequest]
    /\ attempt' = [c \in Callers |-> NoAttempt]
    /\ UNCHANGED <<actions, calls, landed, posts, recent, approved, arrivals>>

Init ==
    /\ ActuationInit
    /\ posts = [p \in Posts |-> [status |-> "absent", channel |-> CHOOSE channel \in Channels : TRUE]]
    /\ request = [c \in Callers |-> NoRequest]
    /\ recent = <<>>
    /\ approved = FALSE
    /\ actuator \in {"none", "fake", "real"}
    /\ arrivals = 0
    /\ restarts = 0

RequestStep(c) ==
    \/ QueueFromRun(c)
    \/ queue_posts(c)
    \/ \E p \in Posts, kind \in {"schedule", "cancel"} : LoadForEdit(c, p, kind)
    \/ schedule_post(c)
    \/ cancel_post(c)
    \/ \E p \in Posts : LoadForPublish(c, p)
    \/ CountForPublish(c)
    \/ CountForExport(c)
    \/ ClaimKey(c)
    \/ Act(c)
    \/ ActRaises(c)
    \/ RecordOutcome(c)
    \/ RollBack(c)
    \/ NextPiece(c)
    \/ EndExport(c)

Next ==
    \/ \E c \in Callers : RequestStep(c)
    \/ Approve
    \/ Age
    \/ Restart

Spec == Init /\ [][Next]_vars

-----------------------------------------------------------------------------

(* The tables and the requests hold what the code can put there.            *)
TypeOK ==
    /\ ActuationTypeOK
    /\ posts \in [Posts -> SocialPosts]
    /\ request \in [Callers -> Requests]
    /\ recent \in Seq(Keys)
    /\ approved \in BOOLEAN
    /\ actuator \in {"none", "fake", "real"}
    /\ \A c \in Callers :
         /\ attempt[c].stage # "none" => request[c].stage = "allowed"
         /\ request[c].kind = "publish" /\ attempt[c].stage # "none" =>
              attempt[c].key = request[c].post

(* A post shown as published is at the provider, and the ledger says so: no *)
(* simulated send, replayed refusal or lost answer makes it published.      *)
(* (publish_post: "The status is written from the outcome".)                *)
PublishedWentOut ==
    \A p \in Posts :
        posts[p].status = "published" =>
            /\ p \in landed
            /\ actions[p] = [status |-> "succeeded", fake |-> FALSE]

(* The week's cap is exceeded only by a caller whose count is out of date:  *)
(* another one inserted a row after it was taken.  Crashed attempts count.  *)
(* (published_since: "in_flight counts as well as succeeded".)              *)
OverTheCap ==
    Cardinality({i \in DOMAIN recent :
                   actions[recent[i]].status \notin {"refused", "failed"}}) > WeeklyCap

OnlyAStaleCountOvershoots ==
    [][OverTheCap' /\ ~OverTheCap =>
         \E c \in Callers :
             /\ request[c].stage = "allowed"
             /\ request'[c].believed > request[c].believed
             /\ request[c].believed < Committed]_vars

(* A press on a post whose last attempt failed does more than repeat that   *)
(* failure.  (PUBLISHABLE_FROM: "failed and refused ARE here: the first     *)
(* deserves a retry".)                                                      *)
FailedPostIsRetried ==
    [][\A c \in Callers :
         /\ RecordOutcome(c)
         /\ request[c].loaded = "failed"
         => ~(attempt[c].outcome.status = "failed" /\ attempt[c].outcome.replayed)]_vars

=============================================================================
