------------------------------ MODULE Approvals ------------------------------
(***************************************************************************)
(* The approval pipeline of the operator: a button shown in a chat, the    *)
(* click on it, the handler that claims the action and runs the cluster    *)
(* operation, and the report of the outcome to the other platform.         *)
(*                                                                         *)
(*   internal/alert/telegram.go     one goroutine handles all updates      *)
(*   internal/alert/slack.go        one goroutine handles all events       *)
(*   internal/alert/broadcaster.go  the channel both write reports to      *)
(*   cmd/main.go                    the goroutine that relays the reports  *)
(*                                                                         *)
(* An action is an identifier such as "scale|ns|d|3": the payload of a     *)
(* button and the key of ExecutedActions.  The update a worker handles     *)
(* stays at the head of its inbox until its handler returns.               *)
(***************************************************************************)
EXTENDS Naturals, Sequences, FiniteSets

CONSTANTS
    Admin,       \* AdminChatID, always authorized
    Members,     \* the other chats that may register
    Actions,     \* action identifiers buttons carry
    Handled,     \* those that match a branch of handleInteraction
    Kinds,       \* kinds of updates the users of an instance send
    SyncCap,     \* capacity of CrossPlatformSync (100 in the code)
    MaxUpdates,  \* bound: updates sent to the Telegram bot
    MaxEvents,   \* bound: events sent to the Slack bot
    MaxCrashes   \* bound: restarts of the operator

Chats == {Admin} \cup Members

ASSUME ApprovalsAssumption ==
    /\ Admin \notin Members
    /\ Handled \subseteq Actions
    /\ Kinds \subseteq {"click", "ask", "join", "leave", "remove"}
    /\ SyncCap \in Nat \ {0}
    /\ MaxUpdates \in Nat /\ MaxEvents \in Nat /\ MaxCrashes \in Nat

\* The action is that of a click's button or of the tool a question calls;
\* it says nothing in the other kinds.
AnyAction == CHOOSE a \in Actions : TRUE
Updates == {u \in [kind: Kinds, chat: Chats, act: Actions] :
                u.kind \in {"click", "ask"} \/ u.act = AnyAction}
Events  == [kind: {"click", "ask"}, act: Actions]
Reports == [from: {"Telegram", "Slack"}, act: Actions]
Outcomes == {"none", "ok", "err", "void"}

VARIABLES
    members,     \* ChatIDs
    shown,       \* buttons in each Telegram chat
    shownSlack,  \* buttons in the Slack channel
    tgServer,    \* updates Telegram still holds for the bot
    tgFetched,   \* how many of them the last getUpdates returned
    tgInbox,     \* the channel of GetUpdatesChan
    tgPc,        \* where the Telegram goroutine is
    executed,    \* ExecutedActions
    outcome,     \* what the approvers were told of each action, this life
    toldAlready, \* actions answered "Already executed by a teammate"
    slInbox,     \* Socket.Events
    slPc,        \* where the Slack goroutine is
    channel,     \* CrossPlatformSync
    syncing,     \* the report the relay goroutine holds, if any
    sent,        \* history: updates users sent
    handled,     \* history: updates handled, this life
    slSent,      \* history: events users sent
    posted,      \* history: reports put in the channel, this life
    relayed,     \* history: reports the relay has dealt with, this life
    missed,      \* history: which of them the other platform did not show
    tgRuns,      \* history: operations Telegram approvals ran
    slRuns,      \* history: operations Slack approvals ran
    crashes      \* restarts so far

tgVars   == <<tgServer, tgFetched, tgInbox, handled>>
claims   == <<executed, outcome, toldAlready>>
slVars   == <<slInbox, slPc, slSent, slRuns>>
syncVars == <<channel, syncing, posted, relayed, missed>>
vars == <<members, shown, shownSlack, tgVars, tgPc, claims, slVars, syncVars,
          sent, tgRuns, crashes>>

Init ==
    /\ members = {}
    /\ shown = [c \in Chats |-> {}]
    /\ shownSlack = {}
    /\ tgServer = <<>> /\ tgFetched = 0 /\ tgInbox = <<>>
    /\ tgPc = "idle"
    /\ executed = {}
    /\ outcome = [a \in Actions |-> "none"]
    /\ toldAlready = {}
    /\ slInbox = <<>> /\ slPc = "idle"
    /\ channel = <<>> /\ syncing = <<>>
    /\ sent = <<>> /\ handled = <<>> /\ slSent = <<>>
    /\ posted = <<>> /\ relayed = <<>> /\ missed = {}
    /\ tgRuns = [a \in Actions |-> 0]
    /\ slRuns = [a \in Actions |-> 0]
    /\ crashes = 0

\* isAuthorized: the admin or a registered member.
Authorized(c) == c = Admin \/ c \in members

(***************************************************************************)
(* Buttons.                                                                *)
(***************************************************************************)

\* A controller offers an action: BroadcastWithAction of both bots.
Propose(a) ==
    /\ shown' = [c \in Chats |-> IF Authorized(c) THEN shown[c] \cup {a}
                                                  ELSE shown[c]]
    /\ shownSlack' = shownSlack \cup {a}
    /\ UNCHANGED <<members, tgVars, tgPc, claims, slVars, syncVars,
                   sent, tgRuns, crashes>>

(***************************************************************************)
(* The Telegram servers and the long poll (library go-telegram-bot-api).   *)
(* A getUpdates call confirms what the previous one returned and returns   *)
(* the rest; what was not confirmed is delivered again after a restart.    *)
(***************************************************************************)

\* A user clicks a button in his chat, or sends a text.
UserSends(u) ==
    /\ Len(sent) < MaxUpdates
    /\ u.kind = "click" => u.act \in shown[u.chat]
    /\ tgServer' = Append(tgServer, u)
    /\ sent' = Append(sent, u)
    /\ UNCHANGED <<members, shown, shownSlack, tgFetched, tgInbox, handled,
                   tgPc, claims, slVars, syncVars, tgRuns, crashes>>

Unfetched == SubSeq(tgServer, tgFetched + 1, Len(tgServer))

Poll ==
    /\ tgServer # <<>>
    /\ tgServer' = Unfetched
    /\ tgInbox' = tgInbox \o Unfetched
    /\ tgFetched' = Len(Unfetched)
    /\ UNCHANGED <<members, shown, shownSlack, handled, tgPc, claims, slVars,
                   syncVars, sent, tgRuns, crashes>>

(***************************************************************************)
(* The Telegram goroutine: the loop of Start.                              *)
(***************************************************************************)

Current == Head(tgInbox)

\* Seeded fault: the sender is not checked.
TakesAnyone(k) ==
    /\ tgPc = "idle"
    /\ tgInbox # <<>>
    /\ Current.kind = k

\* The idle goroutine takes update Current, of kind k, of an authorized chat.
Takes(k) ==
    /\ tgPc = "idle"
    /\ tgInbox # <<>>
    /\ Current.kind = k
    /\ Authorized(Current.chat)

\* Seeded fault: the handler drains the updates that came in meanwhile.
ReturnDraining ==
    /\ tgPc' = "idle"
    /\ tgInbox' = <<>>
    /\ handled' = Append(handled, Current)
    /\ UNCHANGED <<tgServer, tgFetched>>

\* The handler of Current returns.
Return ==
    /\ tgPc' = "idle"
    /\ tgInbox' = Tail(tgInbox)
    /\ handled' = Append(handled, Current)
    /\ UNCHANGED <<tgServer, tgFetched>>

\* Neither a click nor a text of a stranger does anything but /register.
TgDiscard ==
    /\ tgPc = "idle"
    /\ tgInbox # <<>>
    /\ Current.kind # "join"
    /\ ~Authorized(Current.chat)
    /\ Return
    /\ UNCHANGED <<members, shown, shownSlack, claims, slVars, syncVars,
                   sent, tgRuns, crashes>>

\* /register: accepted or refused; module Team has the conditions.
TgJoin ==
    /\ tgPc = "idle"
    /\ tgInbox # <<>>
    /\ Current.kind = "join"
    /\ members' \in {members, members \cup ({Current.chat} \ {Admin})}
    /\ Return
    /\ UNCHANGED <<shown, shownSlack, claims, slVars, syncVars, sent,
                   tgRuns, crashes>>

\* /unregister of a member; the admin's leaves the list as it is.
TgLeave ==
    /\ Takes("leave")
    /\ members' = members \ {Current.chat}
    /\ Return
    /\ UNCHANGED <<shown, shownSlack, claims, slVars, syncVars, sent,
                   tgRuns, crashes>>

\* /remove of the admin takes a member off, or finds no such user; anyone
\* else's is refused.
TgRemove ==
    /\ Takes("remove")
    /\ \/ members' = members
       \/ /\ Current.chat = Admin
          /\ \E m \in members : members' = members \ {m}
    /\ Return
    /\ UNCHANGED <<shown, shownSlack, claims, slVars, syncVars, sent,
                   tgRuns, crashes>>

\* routeMessage: the model may call a proposing tool, whose button goes to
\* the asking chat alone, or answer without one.
TgAsk ==
    /\ Takes("ask")
    /\ \/ shown' = shown
       \/ shown' = [shown EXCEPT ![Current.chat] = @ \cup {Current.act}]
    /\ Return
    /\ UNCHANGED <<members, shownSlack, claims, slVars, syncVars, sent,
                   tgRuns, crashes>>

\* handleInteraction, the action was claimed before.
TgAlready ==
    /\ Takes("click")
    /\ Current.act \in executed
    /\ toldAlready' = toldAlready \cup {Current.act}
    /\ Return
    /\ UNCHANGED <<members, shown, shownSlack, executed, outcome, slVars,
                   syncVars, sent, tgRuns, crashes>>

\* handleInteraction, no branch matches the identifier: claimed, then nothing.
TgVoid ==
    /\ Takes("click")
    /\ Current.act \notin executed \cup Handled
    /\ executed' = executed \cup {Current.act}
    /\ outcome' = [outcome EXCEPT ![Current.act] = "void"]
    /\ Return
    /\ UNCHANGED <<members, shown, shownSlack, toldAlready, slVars, syncVars,
                   sent, tgRuns, crashes>>

\* Seeded fault: the claim is not looked up.
TgClaimAgain ==
    /\ Takes("click")
    /\ Current.act \in Handled
    /\ executed' = executed \cup {Current.act}
    /\ tgPc' = "exec"
    /\ UNCHANGED <<members, shown, shownSlack, tgVars, outcome, toldAlready,
                   slVars, syncVars, sent, tgRuns, crashes>>

\* handleInteraction, LoadOrStore claims the action; the operation is next.
TgClaim ==
    /\ Takes("click")
    /\ Current.act \in Handled \ executed
    /\ executed' = executed \cup {Current.act}
    /\ tgPc' = "exec"
    /\ UNCHANGED <<members, shown, shownSlack, tgVars, outcome, toldAlready,
                   slVars, syncVars, sent, tgRuns, crashes>>

\* The operation succeeds and the team is told so.
TgSucceed ==
    /\ tgPc = "exec"
    /\ tgRuns' = [tgRuns EXCEPT ![Current.act] = @ + 1]
    /\ outcome' = [outcome EXCEPT ![Current.act] = "ok"]
    /\ tgPc' = "post"
    /\ UNCHANGED <<members, shown, shownSlack, tgVars, executed, toldAlready,
                   slVars, syncVars, sent, crashes>>

\* Seeded fault: a failure is reported like a success.
TgFailReported ==
    /\ tgPc = "exec"
    /\ tgRuns' = [tgRuns EXCEPT ![Current.act] = @ + 1]
    /\ outcome' = [outcome EXCEPT ![Current.act] = "err"]
    /\ tgPc' = "post"
    /\ UNCHANGED <<members, shown, shownSlack, tgVars, executed, toldAlready,
                   slVars, syncVars, sent, crashes>>

\* Seeded fault: a failure gives the claim back.
TgFailReleases ==
    /\ tgPc = "exec"
    /\ tgRuns' = [tgRuns EXCEPT ![Current.act] = @ + 1]
    /\ outcome' = [outcome EXCEPT ![Current.act] = "err"]
    /\ executed' = executed \ {Current.act}
    /\ Return
    /\ UNCHANGED <<members, shown, shownSlack, toldAlready, slVars, syncVars,
                   sent, crashes>>

\* Seeded fault: nobody is told of a failure.
TgFailQuiet ==
    /\ tgPc = "exec"
    /\ tgRuns' = [tgRuns EXCEPT ![Current.act] = @ + 1]
    /\ Return
    /\ UNCHANGED <<members, shown, shownSlack, claims, slVars, syncVars, sent,
                   crashes>>

\* The operation fails and the approver alone is told so.
TgFail ==
    /\ tgPc = "exec"
    /\ tgRuns' = [tgRuns EXCEPT ![Current.act] = @ + 1]
    /\ outcome' = [outcome EXCEPT ![Current.act] = "err"]
    /\ Return
    /\ UNCHANGED <<members, shown, shownSlack, executed, toldAlready, slVars,
                   syncVars, sent, crashes>>

\* Seeded fault: the sender does not wait for room.
PostUnbounded(r) ==
    /\ channel' = Append(channel, r)
    /\ posted' = Append(posted, r)
    /\ UNCHANGED <<syncing, relayed, missed>>

\* Seeded fault: a report that finds the channel full is dropped.
PostOrDrop(r) ==
    /\ channel' = IF Len(channel) < SyncCap THEN Append(channel, r) ELSE channel
    /\ posted' = Append(posted, r)
    /\ UNCHANGED <<syncing, relayed, missed>>

\* CrossPlatformSync <- report: blocks while the channel is full.
Post(r) ==
    /\ Len(channel) < SyncCap
    /\ channel' = Append(channel, r)
    /\ posted' = Append(posted, r)
    /\ UNCHANGED <<syncing, relayed, missed>>

TgPost ==
    /\ tgPc = "post"
    /\ Post([from |-> "Telegram", act |-> Current.act])
    /\ Return
    /\ UNCHANGED <<members, shown, shownSlack, claims, slVars, sent, tgRuns,
                   crashes>>

(***************************************************************************)
(* The Slack goroutine: no claim and no list of authorized chats.          *)
(***************************************************************************)

\* Someone in the channel clicks a button or writes to the bot.
SlackSends(e) ==
    /\ Len(slSent) < MaxEvents
    /\ e.kind = "click" => e.act \in shownSlack
    /\ slInbox' = Append(slInbox, e)
    /\ slSent' = Append(slSent, e)
    /\ UNCHANGED <<members, shown, shownSlack, tgVars, tgPc, claims, slPc,
                   slRuns, syncVars, sent, tgRuns, crashes>>

SlTakes(k) ==
    /\ slPc = "idle"
    /\ slInbox # <<>>
    /\ Head(slInbox).kind = k

SlAsk ==
    /\ SlTakes("ask")
    /\ \/ shownSlack' = shownSlack
       \/ shownSlack' = shownSlack \cup {Head(slInbox).act}
    /\ slInbox' = Tail(slInbox)
    /\ UNCHANGED <<members, shown, tgVars, tgPc, claims, slPc, slSent, slRuns,
                   syncVars, sent, tgRuns, crashes>>

\* handleInteraction: an identifier no branch matches, an operation that
\* fails, or one that succeeds and is then reported.
SlClick ==
    /\ SlTakes("click")
    /\ LET a == Head(slInbox).act
       IN  \/ /\ a \notin Handled
              /\ slInbox' = Tail(slInbox)
              /\ UNCHANGED <<slPc, slRuns>>
           \/ /\ a \in Handled
              /\ slRuns' = [slRuns EXCEPT ![a] = @ + 1]
              /\ \/ slPc' = "post" /\ UNCHANGED slInbox
                 \/ slInbox' = Tail(slInbox) /\ UNCHANGED slPc
    /\ UNCHANGED <<members, shown, shownSlack, tgVars, tgPc, claims, slSent,
                   syncVars, sent, tgRuns, crashes>>

\* Seeded fault: the event is handled again after the report.
SlPostAgain ==
    /\ slPc = "post"
    /\ Post([from |-> "Slack", act |-> Head(slInbox).act])
    /\ slPc' = "idle"
    /\ UNCHANGED <<members, shown, shownSlack, tgVars, tgPc, claims, slInbox,
                   slSent, slRuns, sent, tgRuns, crashes>>

SlPost ==
    /\ slPc = "post"
    /\ Post([from |-> "Slack", act |-> Head(slInbox).act])
    /\ slPc' = "idle"
    /\ slInbox' = Tail(slInbox)
    /\ UNCHANGED <<members, shown, shownSlack, tgVars, tgPc, claims, slSent,
                   slRuns, sent, tgRuns, crashes>>

(***************************************************************************)
(* The relay goroutine of main.                                            *)
(***************************************************************************)

\* Seeded fault: reports are taken only once the channel is over-full.
SyncTakeLate ==
    /\ syncing = <<>>
    /\ Len(channel) > SyncCap
    /\ syncing' = <<Head(channel)>>
    /\ channel' = Tail(channel)
    /\ UNCHANGED <<members, shown, shownSlack, tgVars, tgPc, claims, slVars,
                   posted, relayed, missed, sent, tgRuns, crashes>>

SyncTake ==
    /\ syncing = <<>>
    /\ channel # <<>>
    /\ syncing' = <<Head(channel)>>
    /\ channel' = Tail(channel)
    /\ UNCHANGED <<members, shown, shownSlack, tgVars, tgPc, claims, slVars,
                   posted, relayed, missed, sent, tgRuns, crashes>>

\* Seeded fault: the report matches neither platform's prefix.
SyncRelayNowhere ==
    /\ syncing # <<>>
    /\ syncing' = <<>>
    /\ UNCHANGED <<members, shown, shownSlack, tgVars, tgPc, claims, slVars,
                   channel, posted, relayed, missed, sent, tgRuns, crashes>>

\* The report is shown, or it is lost: there is no bot for the other platform,
\* or Broadcast fails, and its error is dropped.
SyncRelay ==
    /\ syncing # <<>>
    /\ relayed' = Append(relayed, Head(syncing))
    /\ missed' \in {missed, missed \cup {Len(relayed')}}
    /\ syncing' = <<>>
    /\ UNCHANGED <<members, shown, shownSlack, tgVars, tgPc, claims, slVars,
                   channel, posted, sent, tgRuns, crashes>>

(***************************************************************************)
(* The operator dies and is started again.  Everything in memory is gone:  *)
(* the claims, the inboxes, the channel.  Which members are loaded is the  *)
(* matter of module Team: any set here.                                    *)
(***************************************************************************)
Crash ==
    /\ crashes < MaxCrashes
    /\ crashes' = crashes + 1
    /\ members' \in SUBSET Members
    /\ tgFetched' = 0 /\ tgInbox' = <<>> /\ tgPc' = "idle"
    /\ executed' = {} /\ toldAlready' = {}
    /\ outcome' = [a \in Actions |-> "none"]
    /\ slInbox' = <<>> /\ slPc' = "idle"
    /\ channel' = <<>> /\ syncing' = <<>>
    /\ handled' = <<>> /\ posted' = <<>> /\ relayed' = <<>> /\ missed' = {}
    /\ UNCHANGED <<shown, shownSlack, tgServer, sent, slSent, tgRuns, slRuns>>

TgHandle == \/ TgDiscard \/ TgJoin \/ TgLeave \/ TgRemove \/ TgAsk
            \/ TgAlready \/ TgVoid \/ TgClaim \/ TgSucceed \/ TgFail \/ TgPost
SlHandle == SlAsk \/ SlClick \/ SlPost
Relay    == SyncTake \/ SyncRelay

Next ==
    \/ \E a \in Actions : Propose(a)
    \/ \E u \in Updates : UserSends(u)
    \/ Poll
    \/ TgHandle
    \/ \E e \in Events : SlackSends(e)
    \/ SlHandle
    \/ Relay
    \/ Crash

Spec == Init /\ [][Next]_vars

\* The goroutines run and the calls they make return; nothing else must.
FairSpec ==
    /\ Spec
    /\ WF_vars(Poll) /\ WF_vars(TgHandle)
    /\ WF_vars(SlHandle) /\ WF_vars(Relay)
(***************************************************************************)
(* Properties.                                                             *)
(***************************************************************************)

\* Every variable has its type; the channel is never over its capacity.
TypeTeam ==
    /\ members \subseteq Members
    /\ shown \in [Chats -> SUBSET Actions] /\ shownSlack \subseteq Actions
TypeTelegram ==
    /\ tgServer \in Seq(Updates) /\ tgInbox \in Seq(Updates)
    /\ tgFetched \in Nat /\ tgFetched <= Len(tgServer)
    /\ tgPc \in {"idle", "exec", "post"}
    /\ sent \in Seq(Updates) /\ handled \in Seq(Updates)
TypeClaims ==
    /\ executed \subseteq Actions /\ toldAlready \subseteq Actions
    /\ outcome \in [Actions -> Outcomes]
    /\ tgRuns \in [Actions -> Nat]
    /\ crashes \in Nat /\ crashes <= MaxCrashes
TypeSlack ==
    /\ slPc \in {"idle", "post"}
    /\ slPc = "post" => slInbox # <<>>
    /\ slInbox \in Seq(Events) /\ slSent \in Seq(Events)
    /\ slRuns \in [Actions -> Nat]
TypeSync ==
    /\ channel \in Seq(Reports) /\ Len(channel) <= SyncCap
    /\ syncing \in Seq(Reports) /\ Len(syncing) <= 1
    /\ posted \in Seq(Reports) /\ relayed \in Seq(Reports)
    /\ missed \subseteq DOMAIN relayed

TypeOK == TypeTeam /\ TypeTelegram /\ TypeClaims /\ TypeSlack /\ TypeSync

Occurs(x, s) == \E i \in DOMAIN s : s[i] = x
\* The Telegram goroutine is at work on the approval of a.
Busy(a) == tgPc # "idle" /\ Current.act = a

\* First-approver-wins (telegram.go:682): however many members click, however
\* often, and whatever Telegram delivers again after a restart, the operation
\* of an action is run at most once in each life of the process.
AtMostOnce ==
    \A a \in Actions :
        tgRuns[a] <= crashes + (IF outcome[a] \in {"ok", "err"} THEN 1 ELSE 0)

\* While an operation runs, its approver is still authorized: membership
\* cannot change between the check at telegram.go:678 and the operation.
ExecutionAuthorized ==
    tgPc # "idle" => /\ tgInbox # <<>>
                     /\ Current.kind = "click"
                     /\ Authorized(Current.chat)

\* Slack keeps no record of what was approved (slack.go:243-299), and a second
\* click runs the operation again; but a click is good for one run at most,
\* over all restarts, so that an operation is never run more often than people
\* clicked its button.
OneRunPerClick ==
    \A a \in Actions :
        slRuns[a] <= Cardinality({i \in DOMAIN slSent :
                                     slSent[i] = [kind |-> "click", act |-> a]})

\* In one life updates are handled in the order users sent them, none twice;
\* and until the first crash none is lost.
DeliveryOrder ==
    LET seen == handled \o tgInbox \o Unfetched
    IN  /\ Len(seen) <= Len(sent)
        /\ seen = SubSeq(sent, Len(sent) - Len(seen) + 1, Len(sent))
        /\ crashes = 0 => seen = sent

\* The reports put in the channel are relayed in order, each once, through the
\* hand of the relay goroutine (main.go:264-274): one is missing on the other
\* platform only if its own broadcast fails.
ReportsFifo == posted = relayed \o syncing \o channel

\* An action is reported to Slack exactly when its operation succeeded: no
\* failure is reported as an approval and no success is left out, except the
\* one the goroutine is about to post.
ReportIffSucceeded ==
    \A a \in Actions :
        Occurs([from |-> "Telegram", act |-> a], posted)
            <=> outcome[a] = "ok" /\ ~ Busy(a)

\* No goroutine waits for ever on another: until a crash every update sent
\* to the bot is handled, whatever the Slack goroutine and the bounded
\* channel do meanwhile.
UpdatesHandled ==
    \A n \in 1..MaxUpdates :
        Len(sent) >= n ~> Len(handled) >= n \/ crashes > 0

\* "Cross-platform sync ensures actions approved on one platform are reported
\* on the other" (PRODUCT.md:112).  What is left of it: while the operator lives,
\* the report of an operation that succeeded is shown on the other platform, or
\* was lost by its own broadcast; the loss of one report does not take the next.
Shown(r) == \E i \in DOMAIN relayed \ missed : relayed[i] = r
Lost(r)  == \E i \in missed : relayed[i] = r

ApprovalsRelayed ==
    \A p \in {"Slack", "Telegram"}, a \in Actions :
        LET report == [from |-> p, act |-> a]
            Due    == \/ p = "Slack" /\ slPc = "post" /\ Head(slInbox).act = a
                      \/ p = "Telegram" /\ tgPc = "post" /\ Current.act = a
        IN  Due ~> Shown(report) \/ Lost(report)

\* Nobody reads "Already executed by a teammate" (telegram.go:685) before the
\* approver who came first has an outcome: the claim is taken before the
\* operation runs and kept when it fails, so an answer given on the claim alone
\* could come too early, or after an approval that was given up without a word.
AlreadyMeansSettled ==
    \A a \in toldAlready : outcome[a] # "none"

\* An approval has an outcome: an authorized click on a button the operator
\* itself showed runs an operation ("Cordon nodes under pressure",
\* PRODUCT.md:40, through the button "Approve Cordon").
ApprovalsExecute ==
    \A a \in Actions : outcome[a] # "void"

\* The pipeline implements the ledger of settled actions.
Settled == [none |-> "open", ok |-> "done", err |-> "failed", void |-> "void"]
LedgerOf ==
    [a \in Actions |-> IF tgPc = "exec" /\ Current.act = a
                       THEN "running" ELSE Settled[outcome[a]]]

Ledger == INSTANCE ActionLedger WITH ledger <- LedgerOf
LedgerSpec == Ledger!Spec
=============================================================================
