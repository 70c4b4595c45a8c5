-------------------------- MODULE ProviderAdapters --------------------------
(***************************************************************************)
(* The three built-in adapters against their providers: a create-only Git  *)
(* push, a GitHub draft pull request and a Slack message.  Each effect is  *)
(* prepared, checked, published at most once and asked about, in the order *)
(* in which the coordinator calls its adapter; requests travel, land late  *)
(* or not at all, answers are lost, and strangers use the same branches,   *)
(* pull requests and channel.                                              *)
(***************************************************************************)
EXTENDS Naturals, Sequences, FiniteSets

CONSTANTS
  Effect,      \* effects
  Input,       \* [Effect -> input]: see InputType
  Approved,    \* the approved commit
  Absent,      \* no such ref
  None,
  Window,      \* messages a channel history answer holds (100 in the code)
  MaxMeddling, \* bound on what strangers do
  Faults       \* subset of {"late", "server_error"}

\* One branch is ours to create, one already exists, both are merged into main.
Branch == {"change", "feature", "main"}
Commit == {Approved, "old", "new"}

\* A draft is bound to a branch effect when it expects a head and names the
\* effect it depends on; `safe` abstracts names, sizes and URLs.
InputType == [kind : {"branch", "draft", "slack"}, head : {"change", "feature"},
              expects : BOOLEAN, depends : BOOLEAN, safe : BOOLEAN]

ASSUME InputAssumption == \A e \in Effect : Input[e] \in InputType

VARIABLES
  refs,     \* the remote's branches
  pulls,    \* pull requests
  posts,    \* the channel, oldest first
  flight,   \* effects whose publishing request is on its way
  reply,    \* what the provider answered it: None, "ok" or "refused"
  eff,      \* each effect: progress, pinned commits, the adapter's answer
  landed,   \* how often the provider did each effect
  drifted,  \* effects whose pins moved after the adapter's last look
  meddling  \* what strangers did so far

vars == <<refs, pulls, posts, flight, reply, eff, landed, drifted, meddling>>
remoteVars == <<refs, pulls, posts>>

Init ==
  /\ refs = [b \in Branch |-> IF b = "change" THEN Absent ELSE "old"]
  /\ pulls = {} /\ posts = <<>>
  /\ flight = {} /\ reply = [e \in Effect |-> None]
  /\ eff = [e \in Effect |-> [pc |-> "new", head |-> None, base |-> None,
                              answer |-> "none"]]
  /\ landed = [e \in Effect |-> 0] /\ drifted = {} /\ meddling = 0

Kind(e) == Input[e].kind
Bound(e) == Kind(e) = "draft" /\ Input[e].depends
HeadRef(e) == Input[e].head
At(e, pc) == eff[e].pc = pc
Goto(e, pc) == eff' = [eff EXCEPT ![e].pc = pc]
Answer(e, a) == eff' = [eff EXCEPT ![e].pc = "done", ![e].answer = a]

\* Normalize: a head is expected exactly when the effect that publishes it is
\* named.
Normal(e) ==
  /\ Input[e].safe
  /\ Kind(e) = "draft" => Input[e].expects = Input[e].depends

-----------------------------------------------------------------------------
(* What an adapter reads.                                                  *)

\* A marker in the body ties a pull request to its effect; its state, open or
\* not, does not matter.
Matches(p, e) == p.by = e /\ p.title = "ours" /\ p.head = HeadRef(e)

\* Only the newest messages are in a history answer.
Visible == {posts[i] : i \in {j \in DOMAIN posts : j + Window > Len(posts)}}

\* A ref that is missing is Absent; every other failure ends the operation.
ReadRef(b) == refs[b]

Status(e) ==
  CASE Kind(e) = "branch" ->
         IF refs["change"] = Absent THEN "not_found"
         ELSE IF refs["change"] = Approved THEN "committed" ELSE "conflict"
    [] Kind(e) = "draft" ->
         IF \E p \in pulls : Matches(p, e) THEN "committed" ELSE "not_found"
    [] Kind(e) = "slack" ->
         IF e \in Visible THEN "committed" ELSE "not_found"

\* What VerifyPreCommit asks of a draft; a bound head may still be missing.
PinsBeforeCommit(e) ==
  /\ ReadRef("main") = eff[e].base
  /\ ReadRef(HeadRef(e)) \in {eff[e].head} \cup (IF Bound(e) THEN {Absent} ELSE {})

\* Mutant: a last look that forgets the base branch.
PinsFreshMutant(e) == ReadRef(HeadRef(e)) = eff[e].head

\* What VerifyFresh asks right before the pull request is created.
PinsFresh(e) == ReadRef(HeadRef(e)) = eff[e].head /\ ReadRef("main") = eff[e].base

-----------------------------------------------------------------------------
(* Preparing and checking.                                                 *)

PrepareBranch(e) ==
  /\ Kind(e) = "branch"
  /\ Status(e) = "not_found"
  /\ Goto(e, "prepared")

PrepareDraft(e) ==
  /\ Kind(e) = "draft"
  /\ Bound(e) \/ ReadRef(HeadRef(e)) # Absent
  /\ eff' = [eff EXCEPT ![e].pc = "prepared", ![e].base = ReadRef("main"),
               ![e].head = IF Bound(e) THEN Approved ELSE ReadRef(HeadRef(e))]

PrepareSlack(e) == Kind(e) = "slack" /\ Goto(e, "prepared")

Prepare(e) ==
  /\ At(e, "new")
  /\ Normal(e)
  /\ PrepareBranch(e) \/ PrepareDraft(e) \/ PrepareSlack(e)
  /\ UNCHANGED <<remoteVars, flight, reply, landed, drifted, meddling>>

\* The check before any effect of the transaction is published.
PreCommit(e) ==
  /\ At(e, "prepared")
  /\ CASE Kind(e) = "branch" -> Status(e) # "conflict"
       [] Kind(e) = "draft" -> PinsBeforeCommit(e)
       [] Kind(e) = "slack" -> Status(e) = "not_found"
  /\ Goto(e, "checked")
  /\ UNCHANGED <<remoteVars, flight, reply, landed, drifted, meddling>>

\* A bound draft waits for the effect that publishes its head.
Ready(e) ==
  Bound(e) => \E b \in Effect : Kind(b) = "branch" /\ eff[b].answer = "receipt"

Fresh(e) ==
  /\ At(e, "checked")
  /\ Ready(e)
  /\ \/ Kind(e) # "draft" /\ Goto(e, "ask")
     \/ Kind(e) = "draft" /\ PinsFresh(e) /\ Goto(e, "ask")
     \/ Kind(e) = "draft" /\ ~PinsFresh(e) /\ Answer(e, "rejected")
     \/ Kind(e) = "draft" /\ Answer(e, "unknown")
  /\ drifted' = drifted \ {e}
  /\ UNCHANGED <<remoteVars, flight, reply, landed, meddling>>

\* Nothing is sent that is already there, in the way, or cannot be looked up.
Ask(e) ==
  /\ At(e, "ask")
  /\ \/ Status(e) = "committed" /\ Answer(e, "receipt")
     \/ Status(e) = "conflict" /\ Answer(e, "rejected")
     \/ Status(e) = "not_found" /\ Goto(e, "send")
     \/ Answer(e, "unknown")
  /\ UNCHANGED <<remoteVars, flight, reply, landed, drifted, meddling>>

-----------------------------------------------------------------------------
(* Publishing.                                                             *)

Send(e) ==
  /\ At(e, "send")
  /\ flight' = flight \cup {e}
  /\ Goto(e, "waiting")
  /\ UNCHANGED <<remoteVars, reply, landed, drifted, meddling>>

Done(e) ==
  /\ landed' = [landed EXCEPT ![e] = @ + 1]
  /\ reply' = [reply EXCEPT ![e] = "ok"]

Refuse(e) ==
  /\ reply' = [reply EXCEPT ![e] = "refused"]
  /\ UNCHANGED <<remoteVars, landed>>

\* The remote moves a ref only from the value the lease names: none.
LandPush(e) ==
  /\ Kind(e) = "branch"
  /\ IF refs["change"] = Absent
     THEN refs' = [refs EXCEPT !["change"] = Approved] /\ Done(e) /\ UNCHANGED <<pulls, posts>>
     ELSE Refuse(e)

\* GitHub takes a pull request between existing branches that have no open one;
\* it looks at no commit id.
LandPull(e) ==
  /\ Kind(e) = "draft"
  /\ \/ /\ refs[HeadRef(e)] # Absent
        /\ \A p \in pulls : p.open => p.head # HeadRef(e)
        /\ pulls' = pulls \cup {[by |-> e, title |-> "ours", head |-> HeadRef(e),
                                 at |-> refs[HeadRef(e)], onto |-> refs["main"],
                                 open |-> TRUE]}
        /\ Done(e) /\ UNCHANGED <<refs, posts>>
     \/ Refuse(e)

\* Slack takes every message that arrives: its client id is only looked for
\* in the history.
LandPost(e) ==
  /\ Kind(e) = "slack"
  /\ \/ posts' = Append(posts, e) /\ Done(e) /\ UNCHANGED <<refs, pulls>>
     \/ Refuse(e)

Land(e) ==
  /\ e \in flight
  /\ flight' = flight \ {e}
  /\ LandPush(e) \/ LandPull(e) \/ LandPost(e)
  /\ UNCHANGED <<eff, drifted, meddling>>

\* Publish trusts no push: the ref must then be seen at the approved commit.
PushAnswer(e) ==
  IF reply[e] = "ok" /\ Status(e) = "committed" THEN {"receipt", "unknown"}
  ELSE {"unknown"}

\* Create and Post: a status of 200 with a whole receipt, a status of 200
\* whose body cannot be used, any other status.
RequestAnswer(e) ==
  IF reply[e] = "ok"
  THEN {"receipt", "unknown"} \cup (IF "server_error" \in Faults THEN {"rejected"} ELSE {})
  ELSE {"rejected", "unknown"}

Receive(e) ==
  /\ At(e, "waiting")
  /\ reply[e] # None
  /\ \E a \in IF Kind(e) = "branch" THEN PushAnswer(e) ELSE RequestAnswer(e) : Answer(e, a)
  /\ UNCHANGED <<remoteVars, flight, reply, landed, drifted, meddling>>

\* Mutant: a transport error taken for a refusal.
TimeoutMutant(e) ==
  /\ At(e, "waiting")
  /\ reply[e] = None
  /\ Answer(e, "rejected")
  /\ UNCHANGED <<remoteVars, flight, reply, landed, drifted, meddling>>

\* The transport fails: the request is lost, or lands when nobody waits.
Timeout(e) ==
  /\ At(e, "waiting")
  /\ reply[e] = None
  /\ Answer(e, "unknown")
  /\ flight' = flight \ {e} \/ ("late" \in Faults /\ UNCHANGED flight)
  /\ UNCHANGED <<remoteVars, reply, landed, drifted, meddling>>

\* Recovery asks about an effect whose outcome is unknown, and believes it.
Recover(e) ==
  /\ At(e, "done")
  /\ eff[e].answer = "unknown"
  /\ Answer(e, IF Status(e) = "committed" THEN "receipt" ELSE "absent")
  /\ UNCHANGED <<remoteVars, flight, reply, landed, drifted, meddling>>

-----------------------------------------------------------------------------
(* Strangers.                                                              *)

Looking(e) == Kind(e) = "draft" /\ eff[e].pc \in {"ask", "send", "waiting"}

\* Anybody pushes over, creates or deletes a branch; only the approved commit
\* is nobody else's to push.
MoveRef(b) ==
  /\ \E c \in {"new", Absent} : c # refs[b] /\ refs' = [refs EXCEPT ![b] = c]
  /\ drifted' = drifted \cup {e \in Effect : Looking(e) /\ b \in {HeadRef(e), "main"}}
                        \cup {e \in flight : Kind(e) = "draft"}
  /\ UNCHANGED <<pulls, posts>>

EditPull ==
  /\ \E p \in pulls : \E q \in {[p EXCEPT !.open = FALSE], [p EXCEPT !.title = "edited"]} :
       pulls' = (pulls \ {p}) \cup {q}
  /\ UNCHANGED <<refs, posts, drifted>>

Chat ==
  /\ posts' = Append(posts, "chat")
  /\ UNCHANGED <<refs, pulls, drifted>>

Stranger ==
  /\ meddling < MaxMeddling
  /\ meddling' = meddling + 1
  /\ (\E b \in Branch : MoveRef(b)) \/ EditPull \/ Chat
  /\ UNCHANGED <<flight, reply, eff, landed>>

-----------------------------------------------------------------------------
AdapterNext ==
  \/ Stranger
  \/ \E e \in Effect :
       \/ Prepare(e) \/ PreCommit(e) \/ Fresh(e) \/ Ask(e) \/ Send(e)
       \/ Land(e) \/ Receive(e) \/ Timeout(e) \/ Recover(e)

AdapterSpec == Init /\ [][AdapterNext]_vars

-----------------------------------------------------------------------------
(* Properties.                                                             *)

AdapterTypeOK ==
  /\ refs \in [Branch -> Commit \cup {Absent}]
  /\ flight \subseteq Effect
  /\ \A e \in Effect : eff[e].answer \in {"none", "receipt", "rejected", "unknown", "absent"}

\* What the coordinator builds on: a receipt is only for something the
\* provider did, and a refusal only for something it did not do and will not
\* do when a late request lands.  Whatever an adapter cannot tell it calls
\* unknown.
AnswersAreHonest ==
  \A e \in Effect :
    /\ eff[e].answer = "receipt" => landed[e] > 0
    /\ eff[e].answer = "rejected" => landed[e] = 0 /\ e \notin flight

\* An approved pull request joins the two commits that were approved, however
\* its own transaction and strangers move the branches between the checks; the
\* gap is the code's: GitHub is not told the commits, so what moves between the
\* last look and the request's arrival goes unseen.
PinsHold ==
  \A p \in pulls :
    p.by \notin drifted => p.at = eff[p.by].head /\ p.onto = eff[p.by].base
=============================================================================
