------------------------------ MODULE OpenPosting -----------------------------
(***************************************************************************)
(* Posting a task from the site: runPost on the checkout page, postV2 in the  *)
(* wallet bridge, TaskScopeRegistryV2 and the part of the task registry that  *)
(* numbers tasks.  A public task (private ones skip the batch and the scope,  *)
(* and are left out) needs its scope on chain.  The bridge first             *)
(* sends one batch, post and publish, and publish must name the task id that  *)
(* post will be given: it is the count read before, plus one.  A batch that   *)
(* cannot be confirmed in a minute is looked up by that id, and when it is    *)
(* not found the task is posted again by a plain transaction.                 *)
(*                                                                           *)
(* A flow is one click on the post button.  Several flows run on one page,    *)
(* strangers post at the same time, and a transaction once sent lands or      *)
(* reverts whenever the chain decides, whether or not anybody still waits.    *)
(***************************************************************************)
EXTENDS Naturals, Sequences, FiniteSets

CONSTANTS
    Wallets, Texts, NoText,
    Flows,           \* clicks on the post button
    OwnerOf,         \* [Flows -> Wallets]
    TextOf,          \* [Flows -> Texts], the scope each click posts
    Attempts,        \* how often ensureOpenScope tries to publish, 3 in the code
    Stranger,        \* whoever else posts to the registry
    MaxStrangers     \* model-checking bound on the tasks others post

ASSUME PostingAssumption ==
    /\ OwnerOf \in [Flows -> Wallets] /\ TextOf \in [Flows -> Texts]
    /\ NoText \notin Texts
    /\ Attempts \in Nat \ {0}
    /\ Stranger \notin Wallets

VARIABLES
    tasks,     \* the registry's tasks in the order of their ids, with their scopes
    tx,        \* the transactions each flow has sent
    flow,      \* where each flow is
    busy,      \* checkoutBusy of each wallet's page
    created    \* history: how many tasks the transactions of each flow created

pageVars == <<tasks, tx, flow, busy, created>>

TaskType == [poster : Wallets \cup {Stranger}, scope : Texts \cup {NoText}]

TxType ==
    [batch : {"none", "pending", "landed", "reverted"},
     plain : {"none", "pending", "landed", "reverted"},
     publish : {"none", "pending", "settled"}, plainId : Nat]

Places ==
    {"idle", "check", "count", "send", "poll", "lookup", "post", "receipt", "read", "publish",
     "await", "reread", "closing", "ended"}

FlowType ==
    [at : Places, next : Nat, id : Nat, tries : Nat, blind : BOOLEAN, posted : BOOLEAN]

PageTypeOK ==
    /\ tasks \in Seq(TaskType)
    /\ tx \in [Flows -> TxType]
    /\ flow \in [Flows -> FlowType]
    /\ busy \in [Wallets -> BOOLEAN]
    /\ created \in [Flows -> Nat]

PageInit ==
    /\ tasks = <<>>
    /\ tx = [f \in Flows |->
               [batch |-> "none", plain |-> "none", publish |-> "none", plainId |-> 0]]
    /\ flow = [f \in Flows |-> [at |-> "idle", next |-> 0, id |-> 0, tries |-> 0,
                                blind |-> FALSE, posted |-> FALSE]]
    /\ busy = [w \in Wallets |-> FALSE]
    /\ created = [f \in Flows |-> 0]

-------------------------------------------------------------------------------
(* The chain.  publish requires the poster of the task and no scope yet; the   *)
(* batch is atomic.                                                           *)
CanPublish(ts, w, id) ==
    /\ id \in DOMAIN ts
    /\ ts[id].poster = w
    /\ ts[id].scope = NoText

WithScope(ts, id, text) == [ts EXCEPT ![id].scope = text]

Posted(f) == Append(tasks, [poster |-> OwnerOf[f], scope |-> NoText])

Sent(f, kind, state) == tx' = [tx EXCEPT ![f][kind] = state]

BatchSettles(f) ==
    /\ tx[f].batch = "pending"
    /\ \/ /\ CanPublish(Posted(f), OwnerOf[f], flow[f].next)
          /\ tasks' = WithScope(Posted(f), flow[f].next, TextOf[f])
          /\ created' = [created EXCEPT ![f] = @ + 1]
          /\ Sent(f, "batch", "landed")
       \/ /\ Sent(f, "batch", "reverted")
          /\ UNCHANGED <<tasks, created>>
    /\ UNCHANGED <<flow, busy>>

PlainSettles(f) ==
    /\ tx[f].plain = "pending"
    /\ \/ /\ tasks' = Posted(f)
          /\ created' = [created EXCEPT ![f] = @ + 1]
          /\ tx' = [tx EXCEPT ![f].plain = "landed", ![f].plainId = Len(tasks) + 1]
       \/ /\ Sent(f, "plain", "reverted")
          /\ UNCHANGED <<tasks, created>>
    /\ UNCHANGED <<flow, busy>>

PublishSettles(f) ==
    /\ tx[f].publish = "pending"
    /\ Sent(f, "publish", "settled")
    /\ tasks' = IF CanPublish(tasks, OwnerOf[f], flow[f].id)
                THEN WithScope(tasks, flow[f].id, TextOf[f])
                ELSE tasks
    /\ UNCHANGED <<flow, busy, created>>

StrangerPosts ==
    /\ Cardinality({i \in DOMAIN tasks : tasks[i].poster = Stranger}) < MaxStrangers
    /\ tasks' = Append(tasks, [poster |-> Stranger, scope |-> NoText])
    /\ UNCHANGED <<tx, flow, busy, created>>

-------------------------------------------------------------------------------
(* runPost.  The page is marked busy only when the quota service has answered. *)

At(f, place) == flow[f].at = place

Goes(f, place) == flow' = [flow EXCEPT ![f].at = place]

Click(f) ==
    /\ At(f, "idle") /\ ~busy[OwnerOf[f]]
    /\ Goes(f, "check")
    /\ UNCHANGED <<tasks, tx, busy, created>>

CheckAnswers(f) ==
    /\ At(f, "check")
    /\ \/ /\ Goes(f, "count")
          /\ busy' = [busy EXCEPT ![OwnerOf[f]] = TRUE]
       \/ Goes(f, "ended") /\ UNCHANGED busy
    /\ UNCHANGED <<tasks, tx, created>>

(* postV2 throws: a read failed, the wallet refused, a receipt did not come.   *)
Throws(f) ==
    /\ flow[f].at \in {"count", "post", "receipt", "read", "reread"}
    /\ Goes(f, "closing")
    /\ UNCHANGED <<tasks, tx, busy, created>>

(* tryPostWithOpenScopeBatch                                                  *)
ReadCount(f) ==
    /\ At(f, "count")
    /\ flow' = [flow EXCEPT ![f].at = "send", ![f].next = Len(tasks) + 1]
    /\ UNCHANGED <<tasks, tx, busy, created>>

(* The wallet refuses the batch, sends it and answers with its id, or sends it *)
(* and answers with an error or nothing.                                      *)
SendBatch(f) ==
    /\ At(f, "send")
    /\ \/ Goes(f, "lookup") /\ UNCHANGED tx
       \/ Goes(f, "poll") /\ Sent(f, "batch", "pending")
       \/ Goes(f, "lookup") /\ Sent(f, "batch", "pending")
    /\ UNCHANGED <<tasks, busy, created>>

Found(f, id) == flow' = [flow EXCEPT ![f].at = "read", ![f].id = id]

(* The status says confirmed, or it says failed, cannot be read, or is pending *)
(* for forty polls.                                                           *)
PollBatch(f) ==
    /\ At(f, "poll")
    /\ \/ tx[f].batch = "landed" /\ Found(f, flow[f].next)
       \/ Goes(f, "lookup")
    /\ UNCHANGED <<tasks, tx, busy, created>>

OwnsNext(f) ==
    /\ flow[f].next \in DOMAIN tasks
    /\ tasks[flow[f].next].poster = OwnerOf[f]

PostInstead(f, blind) == flow' = [flow EXCEPT ![f].at = "post", ![f].blind = blind]

(* Mutant: after an unconfirmed batch the task is posted without looking.      *)
PostWithoutLooking(f) ==
    /\ At(f, "lookup")
    /\ PostInstead(f, tx[f].batch = "pending")
    /\ UNCHANGED <<tasks, tx, busy, created>>

(* owned: the predicted task belongs to this wallet, it does not, or the read  *)
(* fails, which counts as not.  blind records a lookup that could not tell.    *)
LookUp(f) ==
    /\ At(f, "lookup")
    /\ \/ OwnsNext(f) /\ Found(f, flow[f].next)
       \/ ~OwnsNext(f) /\ PostInstead(f, tx[f].batch = "pending")
       \/ PostInstead(f, TRUE)
    /\ UNCHANGED <<tasks, tx, busy, created>>

SendPost(f) ==
    /\ At(f, "post")
    /\ Goes(f, "receipt") /\ Sent(f, "plain", "pending")
    /\ UNCHANGED <<tasks, busy, created>>

(* The receipt names the task, or shows that the transaction reverted.         *)
Receipt(f) ==
    /\ At(f, "receipt")
    /\ \/ /\ tx[f].plain = "landed"
          /\ Found(f, tx[f].plainId)
       \/ tx[f].plain = "reverted" /\ Goes(f, "closing")
    /\ UNCHANGED <<tasks, tx, busy, created>>

(* ensureOpenScope                                                            *)
Scope(f) == tasks[flow[f].id].scope

Succeeds(f) == flow' = [flow EXCEPT ![f].at = "closing", ![f].posted = TRUE]

(* Mutant: a batch that was found is taken for published.                      *)
TrustScope(f) ==
    /\ At(f, "read")
    /\ Succeeds(f)
    /\ UNCHANGED <<tasks, tx, busy, created>>

ReadScope(f) ==
    /\ At(f, "read")
    /\ CASE Scope(f) = TextOf[f] -> Succeeds(f)
         [] Scope(f) = NoText -> Goes(f, "publish")
         [] OTHER -> Goes(f, "closing")
    /\ UNCHANGED <<tasks, tx, busy, created>>

(* After a publish that throws the scope is read again, on the last attempt    *)
(* only when the error was that a scope is published already.                 *)
ThrowPublish(f) ==
    \/ /\ flow[f].tries < Attempts - 1 \/ Scope(f) # NoText
       /\ Goes(f, "reread")
    \/ flow[f].tries = Attempts - 1 /\ Goes(f, "closing")

SendPublish(f) ==
    /\ At(f, "publish")
    /\ \/ Goes(f, "await") /\ Sent(f, "publish", "pending")
       \/ ThrowPublish(f) /\ UNCHANGED tx
    /\ UNCHANGED <<tasks, busy, created>>

AwaitPublish(f) ==
    /\ At(f, "await")
    /\ \/ tx[f].publish = "settled" /\ Goes(f, "reread")
       \/ ThrowPublish(f)
    /\ UNCHANGED <<tasks, tx, busy, created>>

ReadAgain(f) ==
    /\ At(f, "reread")
    /\ \/ Scope(f) = TextOf[f] /\ Succeeds(f)
       \/ /\ Scope(f) # TextOf[f]
          /\ flow' = [flow EXCEPT
                        ![f].tries = @ + 1,
                        ![f].at = IF flow[f].tries + 1 < Attempts THEN "publish" ELSE "closing"]
    /\ UNCHANGED <<tasks, tx, busy, created>>

(* Mutant: the page stays busy after a failure.                                *)
FinishIfPosted(f) ==
    /\ At(f, "closing")
    /\ Goes(f, "ended")
    /\ busy' = [busy EXCEPT ![OwnerOf[f]] = @ /\ ~flow[f].posted]
    /\ UNCHANGED <<tasks, tx, created>>

(* Recording the post and refreshing the page are best effort; finally the     *)
(* page is free, also when another flow of the page is not through.            *)
Finish(f) ==
    /\ At(f, "closing")
    /\ Goes(f, "ended")
    /\ busy' = [busy EXCEPT ![OwnerOf[f]] = FALSE]
    /\ UNCHANGED <<tasks, tx, created>>

FlowStep(f) ==
    \/ CheckAnswers(f) \/ Throws(f) \/ ReadCount(f) \/ SendBatch(f) \/ PollBatch(f)
    \/ LookUp(f) \/ SendPost(f) \/ Receipt(f) \/ ReadScope(f) \/ SendPublish(f)
    \/ AwaitPublish(f) \/ ReadAgain(f) \/ Finish(f)

PageNext ==
    \/ StrangerPosts
    \/ \E f \in Flows :
          Click(f) \/ FlowStep(f) \/ BatchSettles(f) \/ PlainSettles(f) \/ PublishSettles(f)

PageSpec == PageInit /\ [][PageNext]_pageVars

-------------------------------------------------------------------------------
(* The task a page shows as posted belongs to its wallet and carries on chain  *)
(* the scope that was written, whoever else has been given the id the batch    *)
(* predicted.                                                                *)
ShownTaskIsListed ==
    \A f \in Flows :
       flow[f].posted =>
          /\ tasks[flow[f].id].poster = OwnerOf[f]
          /\ Scope(f) = TextOf[f]

(* One click creates a second task, and a second access fee, only when the     *)
(* lookup could not tell: the batch was still pending or the read failed.      *)
PostedTwiceOnlyBlind ==
    \A f \in Flows : created[f] > 1 => flow[f].blind

(* A page that is busy has a post at work that will free it: no way for a post *)
(* to end, and no order of two clicks, leaves the page busy for good.         *)
BusyIsFreed ==
    \A w \in Wallets :
       busy[w] => \E f \in Flows : OwnerOf[f] = w /\ flow[f].at \notin {"idle", "check", "ended"}
===============================================================================
