-------------------------------- MODULE Plugin --------------------------------
(***************************************************************************)
(* The plugin around the manager (__init__.py): its constructor, thread    *)
(* and shutdown, and its handlers, which the bus client runs on a pool of  *)
(* threads, each message on its own.  The manager's calls are single steps *)
(* here, which return or raise; of what they do, only the timers and the   *)
(* forwarded interactions matter to the plugin.                            *)
(***************************************************************************)
EXTENDS Payloads, FiniteSets, Sequences

CONSTANTS
  Payloads,   \* what set requests carry (bounds the inputs)
  MaxSent,    \* how many messages others send (bounds the model)
  MaxCopies   \* how many the plugin sends itself (bounds the model)

Messages == 1..(MaxSent + MaxCopies)

ASSUME PluginAssumption ==
  /\ Payloads \subseteq Payload
  /\ MaxSent \in Nat /\ MaxCopies \in Nat
  /\ None \notin Messages

VARIABLES
  phase,      \* how far the constructor, then shutdown, has come
  handlers,   \* message kinds the plugin is subscribed to
  stopping,   \* _stop_event
  thread,     \* what run does
  armed,      \* some timer waits
  waking,     \* some timer is past its wait, its callback yet to run or to end
  message,    \* every message: its content, and how far it is
  late        \* history: shutdown found handlers still at work

vars == <<phase, handlers, stopping, thread, armed, waking, message, late>>

\* The kinds of messages handled, in the order of _handlers; "query" stands for
\* remove, remove.controlled, get and list.
Order == <<"set", "set.controlled", "query", "snooze", "interaction", "sync", "ready">>
Kinds == {Order[i] : i \in DOMAIN Order}
Before(i) == {Order[j] : j \in 1..(i - 1)}

Sets == {"set", "set.controlled"}
Answered == Kinds \ {"interaction", "ready"}

Phases == {"new", "started", "built", "restored", "ready", "failed", "stopping", "stopped"}
InHandler == {"parsing", "calling", "replying"}
Places == {"unsent", "sent", "lost", "done", "failed"} \cup InHandler

\* The data of the other messages: it fits the data model, it does not, or it
\* does not and has a "notification" that is no dict besides.
Requests == [form : {"valid", "invalid", "malformed"}]

Carried(kind) == IF kind \in Sets THEN Payloads ELSE Requests

Unsent ==
  [kind |-> None, payload |-> None, session |-> FALSE, origin |-> None, at |-> "unsent",
   replies |-> 0]

Message ==
  [kind : Kinds \cup {None}, payload : Payloads \cup Parsed \cup Requests \cup {None},
   session : BOOLEAN, origin : Messages \cup {None}, at : Places, replies : 0..1]

TypeOK ==
  /\ phase \in Phases /\ thread \in {"none", "await", "wait", "tick", "ended"}
  /\ handlers \subseteq Kinds
  /\ stopping \in BOOLEAN /\ armed \in BOOLEAN /\ waking \in BOOLEAN /\ late \in BOOLEAN
  /\ message \in [Messages -> Message]

Init ==
  /\ phase = "new" /\ handlers = {} /\ stopping = FALSE
  /\ thread = "none" /\ armed = FALSE /\ waking = FALSE
  /\ message = [m \in Messages |-> Unsent]
  /\ late = FALSE

Fresh(m) == message[m].at = "unsent" /\ \A n \in 1..(m - 1) : message[n].at # "unsent"

Busy == {m \in Messages : message[m].at \in InHandler}

-------------------------------------------------------------------------------
(* Constructor, thread, shutdown *)

\* The base class starts the thread before anything else is there.
Start ==
  /\ phase = "new"
  /\ phase' = "started" /\ thread' = "await"
  /\ UNCHANGED <<handlers, stopping, armed, waking, message, late>>

\* The store, the policies and the manager; a bad configuration or file raises.
Build ==
  /\ phase = "started"
  /\ phase' \in {"built", "failed"}
  /\ UNCHANGED <<handlers, stopping, thread, armed, waking, message, late>>

Restore ==
  /\ phase = "built"
  /\ phase' \in {"restored", "failed"} /\ armed' \in BOOLEAN
  /\ UNCHANGED <<handlers, stopping, thread, waking, message, late>>

MayRegister_Early == phase \in {"built", "restored"}

MayRegister == phase = "restored"

Register(i) ==
  /\ MayRegister /\ handlers = Before(i)
  /\ handlers' = handlers \cup {Order[i]}
  /\ UNCHANGED <<phase, stopping, thread, armed, waking, message, late>>

Ready ==
  /\ phase = "restored" /\ handlers = Kinds
  /\ phase' = "ready"
  /\ UNCHANGED <<handlers, stopping, thread, armed, waking, message, late>>

IsReady == phase \in {"ready", "stopping", "stopped"}

\* run: wait for _ready, then tick whenever the wait ends without _stop_event.
Await ==
  /\ thread = "await" /\ IsReady
  /\ thread' = "wait"
  /\ UNCHANGED <<phase, handlers, stopping, armed, waking, message, late>>

Interval_Endless ==
  /\ thread = "wait"
  /\ thread' = "tick"
  /\ UNCHANGED <<phase, handlers, stopping, armed, waking, message, late>>

Interval ==
  /\ thread = "wait"
  /\ thread' = IF stopping THEN "ended" ELSE "tick"
  /\ UNCHANGED <<phase, handlers, stopping, armed, waking, message, late>>

\* An exception out of tick ends the thread.
Tick ==
  /\ thread = "tick"
  /\ thread' \in {"wait", "ended"}
  /\ UNCHANGED <<phase, handlers, stopping, armed, waking, message, late>>

\* The wait of a timer is over, perhaps the last one's: nothing stops it any more.
TimerCommit ==
  /\ armed
  /\ armed' \in BOOLEAN /\ waking' = TRUE
  /\ UNCHANGED <<phase, handlers, stopping, thread, message, late>>

\* _fire, with _wake for its callback; others may be past their wait as well.
Wake ==
  /\ waking
  /\ waking' \in BOOLEAN
  /\ UNCHANGED <<phase, handlers, stopping, thread, armed, message, late>>

Shutdown ==
  /\ phase = "ready"
  /\ phase' = "stopping" /\ stopping' = TRUE
  /\ UNCHANGED <<handlers, thread, armed, waking, message, late>>

Unregister(i) ==
  /\ phase \in {"stopping", "stopped"} /\ handlers = Kinds \ Before(i)
  /\ handlers' = handlers \ {Order[i]}
  /\ UNCHANGED <<phase, stopping, thread, armed, waking, message, late>>

MayCancel_First == TRUE

MayCancel == handlers = {}

\* manager.shutdown: cancel_all, which stops the timers that wait and no other.
CancelAll ==
  /\ phase = "stopping" /\ MayCancel
  /\ phase' = "stopped" /\ armed' = FALSE
  /\ late' = (Busy # {})
  /\ UNCHANGED <<handlers, stopping, thread, waking, message>>

-------------------------------------------------------------------------------
(* Messages *)

Becomes(m, content) == message' = [message EXCEPT ![m] = content]
Placed(m, place, payload) == [message[m] EXCEPT !.at = place, !.payload = payload]
Goes(m, place) == Becomes(m, Placed(m, place, message[m].payload))

\* What was in a message is of no more interest then.
Over(m, place) ==
  [Unsent EXCEPT !.origin = message[m].origin, !.at = place, !.replies = message[m].replies]
Ends(m) == Becomes(m, Over(m, "done"))

Sent(kind, payload, session) ==
  [kind |-> kind, payload |-> payload, session |-> session, origin |-> None, at |-> "sent",
   replies |-> 0]

\* Somebody sends a message; session tells whether its context has one.
Send(m, kind, payload, session) ==
  /\ Fresh(m)
  /\ Cardinality({n \in Messages : n < m /\ message[n].origin = None}) < MaxSent
  /\ Becomes(m, Sent(kind, payload, session))
  /\ UNCHANGED <<phase, handlers, stopping, thread, armed, waking, late>>

Deliver(m) ==
  /\ message[m].at = "sent"
  /\ IF message[m].kind \in handlers THEN Goes(m, "parsing")
                                     ELSE Becomes(m, Over(m, "lost"))
  /\ UNCHANGED <<phase, handlers, stopping, thread, armed, waking, late>>

ParsedSet(m) ==
  ParseNotification(message[m].payload, message[m].kind = "set.controlled", message[m].session)

\* _handle_set, up to the manager's set.
HandleSet(m) ==
  LET parsed == ParsedSet(m) IN
  /\ message[m].at = "parsing" /\ message[m].kind \in Sets
  /\ \/ parsed = Raised /\ Ends(m)
     \/ parsed = Refused /\ Becomes(m, Placed(m, "replying", None))
     \/ parsed \notin {Raised, Refused} /\ Becomes(m, Placed(m, "calling", parsed))
  /\ UNCHANGED <<phase, handlers, stopping, thread, armed, waking, late>>

Fits(m) == message[m].payload.form = "valid"


\* An invalid sync is taken as one without fields, ready has none to look at.
Lenient == {"sync", "ready"}

\* Any other invalid request is refused.  The refusal of a snooze is built with
\* _requested_id, which raises AttributeError on a "notification" that is no dict.
HandleRequest(m) ==
  /\ message[m].at = "parsing" /\ message[m].kind \in Kinds \ (Sets \cup {"interaction"})
  /\ \/ (Fits(m) \/ message[m].kind \in Lenient) /\ Goes(m, "calling")
     \/ /\ ~Fits(m) /\ message[m].kind \notin Lenient
        /\ IF message[m].kind = "snooze" /\ message[m].payload.form = "malformed"
           THEN Ends(m) ELSE Goes(m, "replying")
  /\ UNCHANGED <<phase, handlers, stopping, thread, armed, waking, late>>

IsForwarded_Never(m) == FALSE

IsForwarded(m) == message[m].origin # None

HandleInteraction(m) ==
  /\ message[m].at = "parsing" /\ message[m].kind = "interaction"
  /\ IF IsForwarded(m) \/ ~Fits(m) THEN Ends(m) ELSE Goes(m, "calling")
  /\ UNCHANGED <<phase, handlers, stopping, thread, armed, waking, late>>

\* The manager's call returns, for all but interactions.
Call(m) ==
  /\ message[m].at = "calling" /\ message[m].kind # "interaction"
  /\ IF message[m].kind \in Answered
     THEN Becomes(m, Placed(m, "replying", None))
     ELSE Ends(m)
  /\ \/ armed' = armed
     \/ message[m].kind = "snooze" /\ armed' = TRUE
  /\ UNCHANGED <<phase, handlers, stopping, thread, waking, late>>

\* The manager's call raises, which ends the handler: another thread has come
\* between (KeyError, IndexError, RuntimeError, AttributeError), a snooze goes
\* beyond all dates (OverflowError), a `since` has no time zone (TypeError), the
\* file cannot be written.  A snooze may have armed its timer by then.
CallFails(m) ==
  /\ message[m].at = "calling"
  /\ Becomes(m, Over(m, "failed"))
  /\ \/ armed' = armed
     \/ message[m].kind = "snooze" /\ armed' = TRUE
  /\ UNCHANGED <<phase, handlers, stopping, thread, waking, late>>

Copy(m) ==
  [message[m] EXCEPT !.at = "sent",
                     !.origin = IF message[m].origin = None THEN m ELSE message[m].origin]

\* interact: the copy for the producer comes by on the bus as well.
Forward(m, copy) ==
  /\ message[m].at = "calling" /\ message[m].kind = "interaction"
  /\ Fresh(copy)
  /\ message' = [message EXCEPT ![m] = Over(m, "done"), ![copy] = Copy(m)]
  /\ UNCHANGED <<phase, handlers, stopping, thread, armed, waking, late>>

\* interact with an id the manager does not know.
Ignore(m) ==
  /\ message[m].at = "calling" /\ message[m].kind = "interaction"
  /\ Ends(m)
  /\ UNCHANGED <<phase, handlers, stopping, thread, armed, waking, late>>

\* A refusal that does not return, and goes on to the manager.
Reply_FallsThrough(m) ==
  LET answered == [message[m] EXCEPT !.replies = @ + 1] IN
  /\ message[m].at = "replying"
  /\ \/ Becomes(m, [answered EXCEPT !.at = "done"])
     \/ message[m].replies = 0 /\ Becomes(m, [answered EXCEPT !.at = "calling"])
  /\ UNCHANGED <<phase, handlers, stopping, thread, armed, waking, late>>

Reply(m) ==
  /\ message[m].at = "replying"
  /\ Becomes(m, [Over(m, "done") EXCEPT !.replies = @ + 1])
  /\ UNCHANGED <<phase, handlers, stopping, thread, armed, waking, late>>

-------------------------------------------------------------------------------
Run == Await \/ Interval \/ Tick

Construct == Start \/ Build \/ Restore \/ Ready \/ \E i \in DOMAIN Order : Register(i)

Handle(m) ==
  \/ HandleSet(m) \/ HandleRequest(m) \/ HandleInteraction(m)
  \/ Call(m) \/ CallFails(m) \/ Reply(m) \/ Ignore(m)
  \/ \E copy \in Messages : Forward(m, copy)

Receive ==
  \E m \in Messages :
    \/ \E kind \in Kinds, session \in BOOLEAN :
         \E payload \in Carried(kind) : Send(m, kind, payload, session)
    \/ Deliver(m)

Next ==
  \/ Construct \/ Run \/ TimerCommit \/ Wake
  \/ Shutdown \/ CancelAll \/ \E i \in DOMAIN Order : Unregister(i)
  \/ Receive \/ \E m \in Messages : Handle(m)

Spec == Init /\ [][Next]_vars

\* The plugin thread and the pool's threads are scheduled.
FairSpec == Spec /\ WF_vars(Run) /\ \A m \in Messages : WF_vars(Handle(m))

-------------------------------------------------------------------------------
(* Properties *)

(***************************************************************************)
(* Neither a request nor a tick gets to the manager before it has restored *)
(* the persisted records: a set or a snooze in between would be expired,   *)
(* re-armed or woken a second time.                                        *)
(***************************************************************************)
RestoredFirst == phase \in {"new", "started", "built"} => Busy = {} /\ thread \in {"none", "await"}

(***************************************************************************)
(* The plugin hears what it emits, its forwarded interactions included: an *)
(* interaction is forwarded to the producer once and never again.          *)
(***************************************************************************)
ForwardedOnce ==
  \A m \in Messages : Cardinality({c \in Messages : message[c].origin = m}) <= 1

(***************************************************************************)
(* Once shut down, with no handler left at work when the timers were       *)
(* cancelled, no timer waits: no request gets in between the two and arms  *)
(* one that would fire in a plugin that is gone.  A timer whose wait was   *)
(* over before still runs its callback.                                    *)
(***************************************************************************)
NoTimerLeft == phase = "stopped" /\ ~late => ~armed

(***************************************************************************)
(* What the manager's set is called with has the producer that the payload *)
(* names, and is not removable by the user when the request is             *)
(* set.controlled, with a legacy payload too, or has a canonical payload   *)
(* that says so.  (In a flat payload removable_by_user is not looked at.)  *)
(***************************************************************************)
AsAsked ==
  [][\A m \in Messages :
       message[m].at = "parsing" /\ message'[m].at = "calling" /\ message[m].kind \in Sets =>
         LET asked == message[m].payload
             got == message'[m].payload
         IN /\ message[m].kind = "set.controlled" => ~got.removable_by_user
            /\ asked.removable_by_user = FALSE /\ asked.nested # "absent"
                 => ~got.removable_by_user
            /\ got.skill_id \in {asked.skill_id, asked.sender}
            /\ asked.skill_id # None => got.skill_id = asked.skill_id]_vars

(***************************************************************************)
(* A shutdown ends the plugin's thread, in the middle of a tick or not.    *)
(***************************************************************************)
ThreadEnds == stopping ~> thread = "ended"

IsRequest(m) == message[m].at = "parsing" /\ message[m].kind \in Answered

\* _requested_id can take the data of its refusal apart.
WellFormed(m) ==
  /\ message[m].kind \in Sets => message[m].payload.nested # "other"
  /\ message[m].kind = "snooze" => message[m].payload.form # "malformed"

AnsweredOrFailed(m) == message[m].replies = 1 \/ message[m].at = "failed"


(***************************************************************************)
(* README.md:53: "Every request gets a .response reply".  Fails, even if   *)
(* calls of the manager that raise are left aside: a "notification" that   *)
(* is no dict raises TypeError in dict(), or AttributeError in             *)
(* _requested_id, and no reply is sent.                                    *)
(***************************************************************************)
EveryRequestAnswered == \A m \in Messages : IsRequest(m) ~> AnsweredOrFailed(m)
===============================================================================
