------------------------------ MODULE PluginProofs ------------------------------
(***************************************************************************)
(* Theorems about Plugin and Payloads, for any messages and payloads.      *)
(***************************************************************************)
EXTENDS Plugin, FiniteSetTheorems, TLAPS

-------------------------------------------------------------------------------
(* What a set request becomes *)

\* A request is refused, fails, or becomes a notification.
LEMMA ParseResult ==
  ASSUME NEW p \in Payload, NEW controlled \in BOOLEAN, NEW context \in BOOLEAN
  PROVE  ParseNotification(p, controlled, context) \in Parsed \cup {Refused, Raised}
  <1> DEFINE removable == Controlled(p, controlled)
             session == IF p.session THEN "own" ELSE IF context THEN "context" ELSE None
             empty == [p EXCEPT !.text = FALSE]
  <1>1. session \in {"own", "context", None}
    OBVIOUS
  <1>2. IsLegacyPayload(p) => removable \in BOOLEAN
    BY DEF Controlled
  <1>3. empty \in Payload
    BY DEF Payload
  <1>4. ASSUME NEW q \in Payload, NormalizedSkillId(q) # None
        PROVE  NormalizedSkillId(q) \in Skills
    BY <1>4 DEF NormalizedSkillId, Payload
  <1>5. ASSUME NEW q \in Payload
        PROVE  LegacyStyle(q.style) \in Styles /\ LegacyTray(q.type) \in {"STICKY", "EPHEMERAL"}
    BY PayloadsAssumption DEF LegacyStyle, LegacyTray
  <1>6. ASSUME NEW q \in Payload, NEW r, NEW s \in {"own", "context", None}
        PROVE  Validated(q, r, s) \in Parsed \cup {Refused}
    <2>1. CASE Validated(q, r, s) = Refused
      BY <2>1
    <2>2. CASE Validated(q, r, s) # Refused
      <3>1. NormalizedSkillId(q) \in Skills /\ q.style # "unknown"
        BY <1>4, <2>2 DEF Validated
      <3>2. (IF q.style = None THEN INFO ELSE q.style) \in Styles
        BY <3>1, PayloadsAssumption DEF Payload
      <3>3. (r # FALSE) \in BOOLEAN /\ q.action \in BOOLEAN
        BY DEF Payload
      <3> QED  BY <1>5, <2>2, <3>1, <3>2, <3>3 DEF Validated, Parsed
    <2> QED  BY <2>1, <2>2
  <1>7. IsLegacyPayload(p) => LegacyToNotification(p, removable) \in Parsed \cup {Refused}
    <2> HIDE DEF removable
    <2>1. p.action \in BOOLEAN
      BY DEF Payload
    <2> QED  BY <1>2, <1>4, <1>5, <2>1 DEF LegacyToNotification, Parsed
  <1> HIDE DEF removable, session, empty
  <1>8. /\ Validated(p, removable, session) \in Parsed \cup {Refused}
        /\ Validated(empty, removable, session) \in Parsed \cup {Refused}
    BY <1>1, <1>3, <1>6
  <1> QED  BY <1>7, <1>8 DEF ParseNotification, removable, session, empty

\* What becomes of it has the producer it names and is not removable by the user
\* when it asks not to be or comes as set.controlled.
LEMMA ParsedAsAsked ==
  ASSUME NEW p \in Payload, NEW controlled \in BOOLEAN, NEW context \in BOOLEAN,
         NEW got, got = ParseNotification(p, controlled, context),
         got # Refused, got # Raised
  PROVE  /\ controlled => ~got.removable_by_user
         /\ p.removable_by_user = FALSE /\ p.nested # "absent" => ~got.removable_by_user
         /\ got.skill_id \in {p.skill_id, p.sender}
         /\ p.skill_id # None => got.skill_id = p.skill_id
  <1> DEFINE removable == Controlled(p, controlled)
             session == IF p.session THEN "own" ELSE IF context THEN "context" ELSE None
             empty == [p EXCEPT !.text = FALSE]
  <1>1. CASE IsLegacyPayload(p)
    <2>1. got = LegacyToNotification(p, removable)
      BY <1>1 DEF ParseNotification
    <2>2. NormalizedSkillId(p) # None
      BY <2>1 DEF LegacyToNotification
    <2>3. got.skill_id = NormalizedSkillId(p) /\ got.removable_by_user = removable
      <3> HIDE DEF removable
      <3> QED  BY <2>1, <2>2 DEF LegacyToNotification
    <2> QED  BY <1>1, <2>3 DEF IsLegacyPayload, Controlled, NormalizedSkillId
  <1>2. CASE ~IsLegacyPayload(p)
    <2> DEFINE q == IF p.nested = "dict" THEN p ELSE empty
    <2>1. got = Validated(q, removable, session)
      BY <1>2 DEF ParseNotification
    <2>2. NormalizedSkillId(q) = NormalizedSkillId(p)
      BY DEF NormalizedSkillId, Payload
    <2> HIDE DEF q
    <2>3. /\ NormalizedSkillId(p) # None
          /\ got.skill_id = NormalizedSkillId(p)
          /\ removable = FALSE => ~got.removable_by_user
      <3> DEFINE flag == removable # FALSE
      <3> HIDE DEF removable, session, flag
      <3>1. ~(NormalizedSkillId(q) = None \/ ~q.text \/ q.style = "unknown" \/ q.type = "unknown")
        BY <2>1 DEF Validated
      <3>2. got = [skill_id          |-> NormalizedSkillId(q),
                   removable_by_user |-> flag,
                   style             |-> IF q.style = None THEN INFO ELSE q.style,
                   tray              |-> LegacyTray(q.type),
                   action            |-> q.action,
                   session           |-> session]
        BY <2>1, <3>1 DEF Validated, flag
      <3>3. NormalizedSkillId(p) # None
        BY <2>2, <3>1
      <3>4. got.skill_id = NormalizedSkillId(p)
        BY <2>2, <3>2
      <3>5. got.removable_by_user = flag
        BY <3>2
      <3>6. removable = FALSE => ~flag
        BY DEF flag
      <3> QED  BY <3>3, <3>4, <3>5, <3>6
    <2> QED  BY <1>2, <2>3 DEF Controlled, NormalizedSkillId
  <1> QED  BY <1>1, <1>2

-------------------------------------------------------------------------------
(* Messages: what a step makes of one *)

\* What a message carries, before and after it is parsed.
Content == Payloads \cup Parsed \cup Requests \cup {None}

LEMMA PlacedFields ==
  ASSUME TypeOK, NEW m \in Messages, NEW place, NEW payload
  PROVE  /\ Placed(m, place, payload).kind = message[m].kind
         /\ Placed(m, place, payload).payload = payload
         /\ Placed(m, place, payload).origin = message[m].origin
         /\ Placed(m, place, payload).at = place
         /\ Placed(m, place, payload).replies = message[m].replies
         /\ place \in Places /\ payload \in Content => Placed(m, place, payload) \in Message
  <1> DEFINE r == message[m]
  <1>1. r \in Message
    BY DEF TypeOK
  <1> HIDE DEF r
  <1>2. LET c == [r EXCEPT !.at = place, !.payload = payload] IN
          /\ c.kind = r.kind /\ c.payload = payload /\ c.origin = r.origin /\ c.at = place
          /\ c.replies = r.replies
          /\ place \in Places /\ payload \in Content => c \in Message
    BY <1>1 DEF Message, Content
  <1> QED  BY <1>2 DEF Placed, r

LEMMA OverFields ==
  ASSUME TypeOK, NEW m \in Messages, NEW place \in Places
  PROVE  /\ Over(m, place) \in Message
         /\ Over(m, place).origin = message[m].origin
         /\ Over(m, place).at = place
         /\ Over(m, place).replies = message[m].replies
  <1>1. message[m] \in Message
    BY DEF TypeOK
  <1> QED  BY <1>1 DEF Over, Unsent, Message

LEMMA CopyFields ==
  ASSUME TypeOK, NEW m \in Messages
  PROVE  /\ Copy(m) \in Message
         /\ Copy(m).kind = message[m].kind /\ Copy(m).payload = message[m].payload
         /\ Copy(m).at = "sent" /\ Copy(m).replies = message[m].replies
         /\ Copy(m).origin = IF message[m].origin = None THEN m ELSE message[m].origin
  <1> DEFINE r == message[m]
             origin == IF r.origin = None THEN m ELSE r.origin
  <1>1. r \in Message /\ origin \in Messages
    BY DEF TypeOK, Message
  <1> HIDE DEF r, origin
  <1>2. LET c == [r EXCEPT !.at = "sent", !.origin = origin] IN
          /\ c \in Message /\ c.kind = r.kind /\ c.payload = r.payload
          /\ c.at = "sent" /\ c.origin = origin /\ c.replies = r.replies
    BY <1>1 DEF Message, Places
  <1> QED  BY <1>2 DEF Copy, r, origin

LEMMA SentFields ==
  ASSUME NEW kind \in Kinds, NEW payload \in Carried(kind), NEW session \in BOOLEAN
  PROVE  /\ Sent(kind, payload, session) \in Message
         /\ Sent(kind, payload, session).kind = kind
         /\ Sent(kind, payload, session).payload = payload
         /\ Sent(kind, payload, session).origin = None
         /\ Sent(kind, payload, session).at = "sent"
         /\ Sent(kind, payload, session).replies = 0
  <1>1. payload \in Payloads \cup Requests
    BY DEF Carried
  <1> QED  BY <1>1 DEF Sent, Message, Places

-------------------------------------------------------------------------------
(* The invariant *)

\* Before restore is through, nothing has got in.
NothingYet ==
  phase \in {"new", "started", "built"} =>
    handlers = {} /\ Busy = {} /\ thread \in {"none", "await"}

\* After cancel_all nothing gets in any more.
NothingMore ==
  phase = "stopped" => handlers = {} /\ (~late => Busy = {} /\ ~armed)

\* An interaction is forwarded at the end of its handling, and only one that is
\* not itself a copy.
CopiesOfDone ==
  \A c \in Messages :
    LET m == message[c].origin IN
      m # None => /\ message[m].at = "done"
                  /\ \A d \in Messages : message[d].origin = m => d = c

OriginalsOnly ==
  \A m \in Messages :
    message[m].at = "calling" /\ message[m].kind = "interaction" => message[m].origin = None

\* Until it is parsed a set carries what was sent.
Unparsed ==
  \A m \in Messages :
    message[m].at \in {"sent", "parsing"} /\ message[m].kind \in Sets =>
      message[m].payload \in Payloads

\* A reply is the end of a handler.
Unanswered == \A m \in Messages : message[m].at # "done" => message[m].replies = 0

IInv ==
  /\ TypeOK /\ NothingYet /\ NothingMore /\ CopiesOfDone /\ OriginalsOnly /\ Unparsed
  /\ Unanswered

LEMMA InitInv == Init => IInv
  <1> SUFFICES ASSUME Init  PROVE IInv
    OBVIOUS
  <1>1. \A m \in Messages : message[m] = Unsent /\ Unsent \in Message
    BY DEF Init, Unsent, Message, Places
  <1>2. TypeOK
    BY <1>1 DEF Init, TypeOK, Phases
  <1>3. \A m \in Messages :
          message[m].at = "unsent" /\ message[m].origin = None /\ message[m].replies = 0
    BY <1>1 DEF Unsent
  <1>4. Busy = {}
    BY <1>3 DEF Busy, InHandler
  <1> QED  BY <1>2, <1>3, <1>4 DEF Init, IInv, NothingYet, NothingMore, CopiesOfDone, OriginalsOnly,
                                    Unparsed, Unanswered

\* Construction, thread and shutdown leave the messages alone.
LEMMA PluginKeepsInv ==
  ASSUME IInv, UNCHANGED message,
         \/ Construct \/ Run \/ TimerCommit \/ Wake \/ Shutdown \/ CancelAll
         \/ \E i \in DOMAIN Order : Unregister(i)
  PROVE  IInv'
  <1> USE DEF IInv
  <1>1. \A i \in DOMAIN Order : Order[i] \in Kinds
    BY DEF Kinds
  <1>2. TypeOK'
    BY <1>1 DEF TypeOK, Phases, Construct, Start, Build, Restore, Ready, Register, Run, Await,
                Interval, Tick, TimerCommit, Wake, Shutdown, CancelAll, Unregister
  <1>3. Busy' = Busy
    BY DEF Busy
  <1>4. NothingYet'
    BY <1>3 DEF NothingYet, Construct, Start, Build, Restore, Ready, MayRegister, Register, Run,
                Await, IsReady, Interval, Tick, TimerCommit, Wake, Shutdown, CancelAll, Unregister
  <1>5. NothingMore'
    BY <1>3 DEF NothingMore, Construct, Start, Build, Restore, Ready, MayRegister, Register, Run,
                Await, Interval, Tick, TimerCommit, Wake, Shutdown, MayCancel, CancelAll, Unregister
  <1>6. CopiesOfDone' /\ OriginalsOnly' /\ Unparsed' /\ Unanswered'
    BY DEF CopiesOfDone, OriginalsOnly, Unparsed, Unanswered
  <1> QED  BY <1>2, <1>4, <1>5, <1>6

\* A message that is not done becomes another of the same or no origin.
LEMMA TurnKeepsMessages ==
  ASSUME IInv, NEW m \in Messages, NEW c \in Message,
         message' = [message EXCEPT ![m] = c],
         message[m].at # "done",
         c.origin \in {message[m].origin, None},
         c.at = "calling" /\ c.kind = "interaction" => c.origin = None,
         c.at \in {"sent", "parsing"} /\ c.kind \in Sets => c.payload \in Payloads,
         c.at # "done" => c.replies = 0
  PROVE  /\ message' \in [Messages -> Message]
         /\ CopiesOfDone' /\ OriginalsOnly' /\ Unparsed' /\ Unanswered'
  <1>1. message' \in [Messages -> Message]
    BY DEF IInv, TypeOK
  <1>2. /\ message'[m] = c
        /\ \A n \in Messages : n # m => message'[n] = message[n]
    BY DEF IInv, TypeOK
  <1>3. OriginalsOnly' /\ Unparsed' /\ Unanswered'
    BY <1>2 DEF IInv, OriginalsOnly, Unparsed, Unanswered
  <1>4. ASSUME NEW d \in Messages, message'[d].origin # None
        PROVE  /\ message[d].origin = message'[d].origin
               /\ message'[message'[d].origin].at = "done"
    <2>1. message[d].origin = message'[d].origin
      BY <1>2, <1>4
    <2>2. message[d].origin \in Messages /\ message[message[d].origin].at = "done"
      BY <1>4, <2>1 DEF IInv, TypeOK, Message, CopiesOfDone
    <2> QED  BY <1>2, <2>1, <2>2
  <1>5. CopiesOfDone'
    <2> SUFFICES ASSUME NEW d \in Messages, message'[d].origin # None
                 PROVE  /\ message'[message'[d].origin].at = "done"
                        /\ \A e \in Messages : message'[e].origin = message'[d].origin => e = d
      BY DEF CopiesOfDone
    <2> QED  BY <1>4 DEF IInv, CopiesOfDone
  <1> QED  BY <1>1, <1>3, <1>5

\* As long as handlers are subscribed to nothing and nothing is at work, it
\* stays so.
LEMMA QuietStays ==
  ASSUME IInv, UNCHANGED <<phase, handlers, thread, late>>,
         handlers = {} /\ Busy = {} => Busy' = {} /\ armed' = armed
  PROVE  NothingYet' /\ NothingMore'
  BY DEF IInv, NothingYet, NothingMore

LEMMA ReceiveKeepsInv ==
  ASSUME IInv, Receive
  PROVE  IInv'
  <1>1. TypeOK
    BY DEF IInv
  <1>2. ASSUME NEW m \in Messages, NEW kind \in Kinds, NEW payload \in Carried(kind),
               NEW session \in BOOLEAN, Send(m, kind, payload, session)
        PROVE  IInv'
    <2> DEFINE c == Sent(kind, payload, session)
    <2>0. kind \in Sets => payload \in Payloads
      BY DEF Carried
    <2>1. /\ c \in Message /\ c.kind = kind /\ c.payload = payload
          /\ c.origin = None /\ c.at = "sent" /\ c.replies = 0
      BY SentFields
    <2> HIDE DEF c
    <2>2. /\ message' = [message EXCEPT ![m] = c] /\ message[m].at = "unsent"
          /\ UNCHANGED <<phase, handlers, stopping, thread, armed, waking, late>>
      BY <1>2 DEF Send, Fresh, Becomes, c
    <2>3. /\ message' \in [Messages -> Message]
          /\ CopiesOfDone' /\ OriginalsOnly' /\ Unparsed' /\ Unanswered'
      BY <1>2, <2>0, <2>1, <2>2, TurnKeepsMessages
    <2>4. Busy' = Busy
      BY <1>1, <2>1, <2>2 DEF TypeOK, Busy, InHandler
    <2>5. NothingYet' /\ NothingMore'
      BY <2>2, <2>4, QuietStays
    <2> QED  BY <1>1, <2>2, <2>3, <2>5 DEF IInv, TypeOK
  <1>3. ASSUME NEW m \in Messages, Deliver(m)
        PROVE  IInv'
    <2> DEFINE c == IF message[m].kind \in handlers
                    THEN Placed(m, "parsing", message[m].payload) ELSE Over(m, "lost")
    <2>1. message[m] \in Message
      BY <1>1 DEF TypeOK
    <2>2. /\ c \in Message /\ c.origin = message[m].origin
          /\ c.at \in {"parsing", "lost"} /\ (handlers = {} => c.at = "lost")
          /\ c.at = "parsing" => c.kind = message[m].kind /\ c.payload = message[m].payload
          /\ c.replies = message[m].replies
      BY <1>1, <2>1, PlacedFields, OverFields DEF Places, InHandler, Message, Content
    <2> HIDE DEF c
    <2>3. /\ message' = [message EXCEPT ![m] = c] /\ message[m].at = "sent"
          /\ UNCHANGED <<phase, handlers, stopping, thread, armed, waking, late>>
      BY <1>3 DEF Deliver, Goes, Becomes, c
    <2>4. /\ c.at = "parsing" /\ c.kind \in Sets => c.payload \in Payloads
          /\ c.replies = 0
      BY <2>2, <2>3 DEF IInv, Unparsed, Unanswered
    <2>5. /\ message' \in [Messages -> Message]
          /\ CopiesOfDone' /\ OriginalsOnly' /\ Unparsed' /\ Unanswered'
      BY <2>2, <2>3, <2>4, TurnKeepsMessages
    <2>6. handlers = {} => Busy' = Busy
      BY <1>1, <2>2, <2>3 DEF TypeOK, Busy, InHandler
    <2>7. NothingYet' /\ NothingMore'
      BY <2>3, <2>6, QuietStays
    <2> QED  BY <1>1, <2>3, <2>5, <2>7 DEF IInv, TypeOK
  <1> QED  BY <1>2, <1>3 DEF Receive

\* What a request's step does to its message, unless it is forwarded.
LEMMA RequestTurns ==
  ASSUME IInv, NEW m \in Messages, Handle(m), ~\E copy \in Messages : Forward(m, copy)
  PROVE  \E c \in Message :
           /\ message' = [message EXCEPT ![m] = c]
           /\ message[m].at \in InHandler /\ c.at \in {"done", "failed", "replying", "calling"}
           /\ c.origin = message[m].origin /\ (c.at # "done" => c.replies = 0)
           /\ c.at = "calling" =>
                /\ message[m].at = "parsing" /\ c.kind = message[m].kind
                /\ c.kind = "interaction" => c.origin = None
  <1>1. TypeOK /\ message[m] \in Message
    BY DEF IInv, TypeOK
  <1> DEFINE Turned == \E c \in Message :
           /\ message' = [message EXCEPT ![m] = c]
           /\ message[m].at \in InHandler /\ c.at \in {"done", "failed", "replying", "calling"}
           /\ c.origin = message[m].origin /\ (c.at # "done" => c.replies = 0)
           /\ c.at = "calling" =>
                /\ message[m].at = "parsing" /\ c.kind = message[m].kind
                /\ c.kind = "interaction" => c.origin = None
  <1>2. ASSUME NEW place \in {"replying", "calling"},
               NEW payload \in Content,
               Becomes(m, Placed(m, place, payload)), message[m].at \in InHandler,
               place = "calling" =>
                 /\ message[m].at = "parsing"
                 /\ message[m].kind = "interaction" => message[m].origin = None
        PROVE  Turned
    <2> DEFINE c == Placed(m, place, payload)
    <2>1. /\ c \in Message /\ c.kind = message[m].kind /\ c.origin = message[m].origin
          /\ c.at = place /\ c.replies = 0
      BY <1>1, <1>2, PlacedFields DEF Places, InHandler, IInv, Unanswered
    <2>2. message' = [message EXCEPT ![m] = c]
      BY <1>2 DEF Becomes
    <2> HIDE DEF c
    <2> QED  BY <1>2, <2>1, <2>2
  <1>3. ASSUME NEW place \in {"done", "failed"}, Becomes(m, Over(m, place)),
               message[m].at \in InHandler
        PROVE  Turned
    <2> DEFINE c == Over(m, place)
    <2>1. c \in Message /\ c.origin = message[m].origin /\ c.at = place /\ c.replies = 0
      BY <1>1, <1>3, OverFields DEF Places, InHandler, IInv, Unanswered
    <2>2. message' = [message EXCEPT ![m] = c]
      BY <1>3 DEF Becomes
    <2> HIDE DEF c
    <2> QED  BY <1>3, <2>1, <2>2
  <1> SUFFICES Turned
    OBVIOUS
  <1> HIDE DEF Turned
  <1>4. CASE HandleSet(m)
    <2> DEFINE parsed == ParsedSet(m)
    <2>1. parsed \in Parsed \cup {Refused, Raised}
      <3>1. message[m].payload \in Payload /\ message[m].session \in BOOLEAN
        BY <1>1, <1>4, PluginAssumption DEF HandleSet, IInv, Unparsed, Message
      <3> QED  BY <3>1, ParseResult DEF ParsedSet
    <2>2. /\ message[m].at = "parsing" /\ message[m].kind \in Sets
          /\ \/ parsed = Raised /\ Ends(m)
             \/ parsed = Refused /\ Becomes(m, Placed(m, "replying", None))
             \/ parsed \notin {Raised, Refused} /\ Becomes(m, Placed(m, "calling", parsed))
      BY <1>4 DEF HandleSet
    <2> HIDE DEF parsed
    <2>3. message[m].kind # "interaction" /\ message[m].at \in InHandler
      BY <2>2 DEF Sets, InHandler
    <2>4. CASE parsed = Raised /\ Ends(m)
      BY <1>3, <2>3, <2>4 DEF Ends
    <2>5. CASE parsed = Refused /\ Becomes(m, Placed(m, "replying", None))
      BY <1>2, <2>3, <2>5 DEF Content
    <2>6. CASE parsed \in Parsed /\ Becomes(m, Placed(m, "calling", parsed))
      BY <1>2, <2>2, <2>3, <2>6 DEF Content
    <2> QED  BY <2>1, <2>2, <2>4, <2>5, <2>6
  <1>5. CASE HandleRequest(m)
    <2>1. /\ message[m].at = "parsing" /\ message[m].at \in InHandler
          /\ message[m].kind # "interaction"
          /\ \/ Becomes(m, Over(m, "done"))
             \/ Becomes(m, Placed(m, "calling", message[m].payload))
             \/ Becomes(m, Placed(m, "replying", message[m].payload))
      BY <1>5 DEF HandleRequest, Goes, Ends, InHandler
    <2>2. message[m].payload \in Content
      BY <1>1 DEF Message, Content
    <2> QED  BY <1>2, <1>3, <2>1, <2>2
  <1>6. CASE HandleInteraction(m)
    <2>1. /\ message[m].at = "parsing" /\ message[m].at \in InHandler
          /\ \/ Becomes(m, Over(m, "done"))
             \/ /\ message[m].origin = None
                /\ Becomes(m, Placed(m, "calling", message[m].payload))
      BY <1>6 DEF HandleInteraction, IsForwarded, Goes, Ends, InHandler
    <2>2. message[m].payload \in Content
      BY <1>1 DEF Message, Content
    <2> QED  BY <1>2, <1>3, <2>1, <2>2
  <1>7. CASE Call(m)
    <2>1. /\ message[m].at \in InHandler
          /\ Becomes(m, Over(m, "done")) \/ Becomes(m, Placed(m, "replying", None))
      BY <1>7 DEF Call, Ends, InHandler
    <2> QED  BY <1>2, <1>3, <2>1 DEF Content
  <1>8. CASE CallFails(m) \/ Ignore(m)
    BY <1>3, <1>8 DEF CallFails, Ignore, Ends, InHandler
  <1>9. CASE Reply(m)
    <2> DEFINE a == Over(m, "done")
               c == [a EXCEPT !.replies = @ + 1]
    <2>1. message[m].at = "replying" /\ message' = [message EXCEPT ![m] = c]
      BY <1>9 DEF Reply, Becomes
    <2>2. /\ a \in Message /\ a.origin = message[m].origin /\ a.at = "done"
          /\ a.replies = 0
      BY <1>1, <2>1, OverFields DEF Places, IInv, Unanswered
    <2> HIDE DEF a
    <2>3. c \in Message /\ c.origin = message[m].origin /\ c.at = "done"
      BY <2>2 DEF Message
    <2> HIDE DEF c
    <2> QED  BY <2>1, <2>3 DEF Turned, InHandler
  <1> QED  BY <1>4, <1>5, <1>6, <1>7, <1>8, <1>9 DEF Handle

\* The copy of an interaction is the only one: what is not done has none yet.
LEMMA ForwardKeepsMessages ==
  ASSUME IInv, NEW m \in Messages, NEW copy \in Messages, Forward(m, copy)
  PROVE  /\ message' \in [Messages -> Message]
         /\ CopiesOfDone' /\ OriginalsOnly' /\ Unparsed' /\ Unanswered'
         /\ Busy' \subseteq Busy
  <1> DEFINE a == Over(m, "done")
             b == Copy(m)
  <1>1. TypeOK /\ message[m] \in Message
    BY DEF IInv, TypeOK
  <1>2. /\ message[m].at = "calling" /\ message[m].kind = "interaction"
        /\ message[m].origin = None /\ message[copy].at = "unsent"
        /\ message' = [message EXCEPT ![m] = a, ![copy] = b]
    BY DEF Forward, Fresh, IInv, OriginalsOnly
  <1>3. a \in Message /\ a.origin = None /\ a.at = "done"
    BY <1>1, <1>2, OverFields DEF Places
  <1>4. /\ b \in Message /\ b.origin = m /\ b.at = "sent" /\ b.kind = "interaction"
        /\ b.replies = 0
    BY <1>1, <1>2, CopyFields DEF IInv, Unanswered
  <1> HIDE DEF a, b
  <1>5. copy # m
    BY <1>2
  <1>6. /\ message'[m] = a /\ message'[copy] = b
        /\ \A n \in Messages : n \notin {m, copy} => message'[n] = message[n]
    BY <1>1, <1>2, <1>5 DEF TypeOK
  <1>7. message' \in [Messages -> Message]
    BY <1>1, <1>2, <1>3, <1>4 DEF TypeOK
  <1>8. OriginalsOnly' /\ Unparsed' /\ Unanswered'
    BY <1>3, <1>4, <1>6 DEF IInv, OriginalsOnly, Unparsed, Unanswered, Sets
  <1>9. m # None
    BY PluginAssumption
  <1>10. \A d \in Messages : message[d].origin # m
    BY <1>2, <1>9 DEF IInv, CopiesOfDone
  <1>11. CopiesOfDone'
    <2> SUFFICES ASSUME NEW d \in Messages, message'[d].origin # None
                 PROVE  /\ message'[message'[d].origin].at = "done"
                        /\ \A e \in Messages : message'[e].origin = message'[d].origin => e = d
      BY DEF CopiesOfDone
    <2>1. CASE d = copy
      BY <1>3, <1>4, <1>6, <1>9, <1>10, <2>1
    <2>2. CASE d # copy
      <3>1. d # m /\ message'[d] = message[d]
        BY <1>3, <1>6, <2>2
      <3>2. /\ message[d].origin \in Messages /\ message[message[d].origin].at = "done"
            /\ \A e \in Messages : message[e].origin = message[d].origin => e = d
        BY <1>1, <3>1 DEF IInv, TypeOK, Message, CopiesOfDone
      <3>3. message[d].origin \notin {m, copy}
        BY <1>2, <3>2
      <3> QED  BY <1>3, <1>4, <1>6, <3>1, <3>2, <3>3
    <2> QED  BY <2>1, <2>2
  <1>12. Busy' \subseteq Busy
    BY <1>3, <1>4, <1>6 DEF Busy, InHandler
  <1> QED  BY <1>7, <1>8, <1>11, <1>12

LEMMA HandleKeepsInv ==
  ASSUME IInv, NEW m \in Messages, Handle(m)
  PROVE  IInv'
  <1>1. /\ UNCHANGED <<phase, handlers, stopping, thread, waking, late>>
        /\ armed' = armed \/ armed' = TRUE
    BY DEF Handle, HandleSet, HandleRequest, HandleInteraction, Call, CallFails, Reply, Ignore,
           Forward
  <1>2. message[m].at \in InHandler
    BY DEF Handle, HandleSet, HandleRequest, HandleInteraction, Call, CallFails, Reply, Ignore,
           Forward, InHandler
  <1>3. Busy # {}
    BY <1>2 DEF Busy
  <1>4. /\ message' \in [Messages -> Message]
        /\ CopiesOfDone' /\ OriginalsOnly' /\ Unparsed' /\ Unanswered'
    <2>1. CASE \E copy \in Messages : Forward(m, copy)
      BY <2>1, ForwardKeepsMessages
    <2>2. CASE ~\E copy \in Messages : Forward(m, copy)
      <3>1. PICK c \in Message :
              /\ message' = [message EXCEPT ![m] = c]
              /\ message[m].at \in InHandler
              /\ c.at \in {"done", "failed", "replying", "calling"}
              /\ c.origin = message[m].origin /\ (c.at # "done" => c.replies = 0)
              /\ c.at = "calling" =>
                   /\ message[m].at = "parsing" /\ c.kind = message[m].kind
                   /\ c.kind = "interaction" => c.origin = None
        BY <2>2, RequestTurns
      <3>2. message[m].at # "done"
        BY <1>2 DEF InHandler
      <3> QED  BY <3>1, <3>2, TurnKeepsMessages
    <2> QED  BY <2>1, <2>2
  <1>5. NothingYet' /\ NothingMore'
    BY <1>1, <1>3, QuietStays
  <1> QED  BY <1>1, <1>4, <1>5 DEF IInv, TypeOK

LEMMA Invariant == Spec => []IInv
  <1>1. ASSUME IInv, [Next]_vars
        PROVE  IInv'
    <2>1. CASE UNCHANGED vars
      BY <1>1, <2>1 DEF vars, IInv, TypeOK, NothingYet, NothingMore, CopiesOfDone, OriginalsOnly,
                        Unparsed, Unanswered, Busy
    <2>2. CASE Receive
      BY <1>1, <2>2, ReceiveKeepsInv
    <2>3. CASE \E m \in Messages : Handle(m)
      BY <1>1, <2>3, HandleKeepsInv
    <2>4. CASE \/ Construct \/ Run \/ TimerCommit \/ Wake \/ Shutdown \/ CancelAll
               \/ \E i \in DOMAIN Order : Unregister(i)
      <3>1. UNCHANGED message
        BY <2>4 DEF Construct, Start, Build, Restore, Ready, Register, Run, Await, Interval, Tick,
                    TimerCommit, Wake, Shutdown, CancelAll, Unregister
      <3> QED  BY <1>1, <2>4, <3>1, PluginKeepsInv
    <2> QED  BY <1>1, <2>1, <2>2, <2>3, <2>4 DEF Next
  <1> QED  BY InitInv, <1>1, PTL DEF Spec

-------------------------------------------------------------------------------
(* Theorems *)

(***************************************************************************)
(* Whatever the constructor, the handlers and the threads of the bus       *)
(* client do, every variable stays within its type.  Each reply counts, so *)
(* no message is answered twice: an answer is the last step of a handler,  *)
(* which every path through it reaches at most once.                       *)
(***************************************************************************)
THEOREM TypeCorrect == Spec => []TypeOK
  <1>1. IInv => TypeOK
    BY DEF IInv
  <1> QED  BY Invariant, <1>1, PTL

(***************************************************************************)
(* Neither a request nor a tick gets to the manager before it has restored *)
(* the persisted records.                                                  *)
(***************************************************************************)
THEOREM RestoresFirst == Spec => []RestoredFirst
  <1>1. IInv => RestoredFirst
    BY DEF IInv, NothingYet, RestoredFirst
  <1> QED  BY Invariant, <1>1, PTL

(***************************************************************************)
(* An interaction is forwarded to the producer once and never again,       *)
(* though the plugin hears its own copies.                                 *)
(***************************************************************************)
THEOREM ForwardsOnce == Spec => []ForwardedOnce
  <1>1. ASSUME IInv, NEW m \in Messages
        PROVE  Cardinality({c \in Messages : message[c].origin = m}) <= 1
    <2> DEFINE copies == {c \in Messages : message[c].origin = m}
    <2>1. m # None
      BY PluginAssumption
    <2>2. \A c, d \in copies : c = d
      BY <1>1, <2>1 DEF IInv, CopiesOfDone
    <2> HIDE DEF copies
    <2>3. Cardinality(copies) <= 1
      <3>1. CASE copies = {}
        BY <3>1, FS_EmptySet
      <3>2. CASE copies # {}
        <4>1. PICK c : copies = {c}
          BY <2>2, <3>2
        <4> QED  BY <4>1, FS_Singleton
      <3> QED  BY <3>1, <3>2
    <2> QED  BY <2>3 DEF copies
  <1>2. IInv => ForwardedOnce
    BY <1>1 DEF ForwardedOnce
  <1> QED  BY Invariant, <1>2, PTL

(***************************************************************************)
(* Once shut down, with no handler left at work when the timers were       *)
(* cancelled, no timer of the plugin waits.  (One that was past its wait   *)
(* is beyond cancel, and still runs its callback.)                         *)
(***************************************************************************)
THEOREM LeavesNoTimer == Spec => []NoTimerLeft
  <1>1. IInv => NoTimerLeft
    BY DEF IInv, NothingMore, NoTimerLeft
  <1> QED  BY Invariant, <1>1, PTL

(***************************************************************************)
(* What the manager's set is called with has the producer that the request *)
(* names, and is not removable by the user when it comes as set.controlled *)
(* or when a canonical payload asks for that.                              *)
(***************************************************************************)
THEOREM HandsOverAsAsked == Spec => AsAsked
  <1>1. ASSUME IInv, [Next]_vars, NEW m \in Messages,
               message[m].at = "parsing", message'[m].at = "calling", message[m].kind \in Sets
        PROVE  /\ HandleSet(m)
               /\ ParsedSet(m) \notin {Refused, Raised}
               /\ message'[m].payload = ParsedSet(m)
    <2>1. TypeOK /\ \A n \in Messages : message[n] \in Message
      BY <1>1 DEF IInv, TypeOK
    <2>2. message' # message
      BY <1>1
    <2>3. ASSUME Receive
          PROVE  FALSE
      <3>1. PICK n \in Messages :
              \/ \E kind, payload, session : Send(n, kind, payload, session)
              \/ Deliver(n)
        BY <2>3 DEF Receive
      <3>2. message[n].at \in {"unsent", "sent"}
        BY <3>1 DEF Send, Fresh, Deliver
      <3>3. message'[m] = message[m]
        BY <1>1, <2>1, <3>1, <3>2 DEF TypeOK, Send, Deliver, Goes, Becomes
      <3> QED  BY <1>1, <3>3
    <2>4. ASSUME NEW n \in Messages, NEW copy \in Messages, Forward(n, copy)
          PROVE  FALSE
      <3>1. message[n].at = "calling" /\ message[copy].at = "unsent"
        BY <2>4 DEF Forward, Fresh
      <3> QED  BY <1>1, <2>1, <2>4, <3>1 DEF Forward, TypeOK
    <2>5. ASSUME NEW n \in Messages, Handle(n), n # m
          PROVE  FALSE
      <3>1. message'[m] = message[m]
        BY <1>1, <2>4, <2>5, RequestTurns DEF IInv, TypeOK
      <3> QED  BY <1>1, <3>1
    <2>6. Handle(m)
      <3>1. UNCHANGED message \/ Receive \/ \E n \in Messages : Handle(n)
        BY <1>1
        DEF vars, Next, Construct, Start, Build, Restore, Ready, Register, Run, Await, Interval,
            Tick, TimerCommit, Wake, Shutdown, CancelAll, Unregister
      <3> QED  BY <2>2, <2>3, <2>5, <3>1
    <2>7. HandleSet(m)
      BY <1>1, <2>4, <2>6
      DEF Handle, HandleRequest, HandleInteraction, Call, CallFails, Reply, Ignore, Sets
    <2> DEFINE parsed == ParsedSet(m)
    <2>8. \/ Becomes(m, Over(m, "done"))
          \/ Becomes(m, Placed(m, "replying", None))
          \/ parsed \notin {Raised, Refused} /\ Becomes(m, Placed(m, "calling", parsed))
      BY <2>7 DEF HandleSet, Ends
    <2> HIDE DEF parsed
    <2>9. /\ Over(m, "done").at = "done"
          /\ Placed(m, "replying", None).at = "replying"
          /\ Placed(m, "calling", parsed).payload = parsed
      BY <2>1, OverFields, PlacedFields DEF Places
    <2>10. \A content : Becomes(m, content) => message'[m] = content
      BY <2>1 DEF Becomes, TypeOK
    <2>11. parsed \notin {Raised, Refused} /\ message'[m].payload = parsed
      BY <1>1, <2>8, <2>9, <2>10
    <2> QED  BY <2>7, <2>11 DEF parsed
  <1>2. ASSUME IInv, [Next]_vars, NEW m \in Messages,
               message[m].at = "parsing", message'[m].at = "calling", message[m].kind \in Sets
        PROVE  LET asked == message[m].payload
                   got == message'[m].payload
               IN /\ message[m].kind = "set.controlled" => ~got.removable_by_user
                  /\ asked.removable_by_user = FALSE /\ asked.nested # "absent"
                       => ~got.removable_by_user
                  /\ got.skill_id \in {asked.skill_id, asked.sender}
                  /\ asked.skill_id # None => got.skill_id = asked.skill_id
    <2>1. message[m].payload \in Payload /\ message[m].session \in BOOLEAN
      BY <1>2, PluginAssumption DEF IInv, TypeOK, Message, Unparsed
    <2>2. /\ ParsedSet(m) \notin {Refused, Raised}
          /\ message'[m].payload = ParsedSet(m)
      BY <1>1, <1>2
    <2> QED  BY <2>1, <2>2, ParsedAsAsked DEF ParsedSet
  <1>3. IInv /\ [Next]_vars =>
          (\A m \in Messages :
             message[m].at = "parsing" /\ message'[m].at = "calling" /\ message[m].kind \in Sets =>
               LET asked == message[m].payload
                   got == message'[m].payload
               IN /\ message[m].kind = "set.controlled" => ~got.removable_by_user
                  /\ asked.removable_by_user = FALSE /\ asked.nested # "absent"
                       => ~got.removable_by_user
                  /\ got.skill_id \in {asked.skill_id, asked.sender}
                  /\ asked.skill_id # None => got.skill_id = asked.skill_id)
    BY <1>2
  <1> QED  BY Invariant, <1>3, PTL DEF Spec, AsAsked
===============================================================================
