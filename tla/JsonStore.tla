------------------------------- MODULE JsonStore -------------------------------
(***************************************************************************)
(* JsonNotificationStore (store.py): every change of the records is made   *)
(* in memory and then persisted by emptying the JsonStorage, refilling it  *)
(* record by record and storing it in its file.  Workers of the bus upsert *)
(* and change records, the plugin thread prunes them; nothing but the      *)
(* library's file lock keeps them apart.  The plugin may be killed at any  *)
(* point and loads the file again.                                         *)
(*                                                                         *)
(* Of json_database it is assumed that clear pops the keys of a copy of    *)
(* the storage one by one (so that one which is gone by then raises        *)
(* KeyError), that store writes the file in place, under a lock, iterating *)
(* over the storage (so that a key added or removed meanwhile raises), and *)
(* that a file it cannot read loads as an empty storage.                   *)
(***************************************************************************)
EXTENDS Integers, FiniteSets

CONSTANTS
  Keys,      \* notification ids
  Versions,  \* what a record can hold
  Workers,   \* threads of the bus
  None,      \* no record under this id
  Torn       \* content of a file that is being written

ASSUME StoreAssumption ==
  /\ None \notin Versions
  /\ Torn \notin [Keys -> Versions \cup {None}]
  /\ "tick" \notin Workers
  /\ IsFiniteSet(Keys)

Writers == Workers \cup {"tick"}

VARIABLES
  mem,      \* _records
  storage,  \* _storage
  file,     \* the file behind it
  local,    \* writer -> what it does next, and its local variables
  acked,    \* history: the records when the last change was complete
  met,      \* history: since the start, two writers have overlapped
  cut       \* history: one of the two was a prune, or a clear missed a key

vars == <<mem, storage, file, local, acked, met, cut>>
contents == <<mem, storage, file, acked>>

Contents == [Keys -> Versions \cup {None}]
Empty == [k \in Keys |-> None]
KeysOf(c) == {k \in Keys : c[k] # None}
Size(c) == Cardinality(KeysOf(c))

Idle == [pc |-> "idle", left |-> {}, done |-> {}, size |-> 0, key |-> None, value |-> None]
At(w, pc) == local[w].pc = pc
Resting(w) == local[w].pc \in {"idle", "dead"}
Quiet == \A w \in Writers : Resting(w)

Local ==
  [pc    : {"idle", "dead", "clear", "pop", "iterate", "refill", "assign", "open", "dump"},
   left  : SUBSET Keys,
   done  : SUBSET Keys,
   size  : Nat,
   key   : Keys \cup {None},
   value : Versions \cup {None}]

TypeOK ==
  /\ mem \in Contents /\ storage \in Contents /\ acked \in Contents
  /\ file \in Contents \cup {Torn}
  /\ local \in [Writers -> Local]
  /\ met \in BOOLEAN /\ cut \in BOOLEAN

Init ==
  /\ mem = Empty /\ storage = Empty /\ file = Empty /\ acked = Empty
  /\ local = [w \in Writers |-> Idle]
  /\ met = FALSE /\ cut = FALSE

\* w starts a change: the overlaps with the writers at work are recorded.
Start(w) ==
  LET others == {v \in Writers : ~Resting(v)} IN
  /\ At(w, "idle")
  /\ met' = (met \/ others # {})
  /\ cut' = (cut \/ (others # {} /\ "tick" \in others \cup {w}))

Goto(w, pc) == local' = [local EXCEPT ![w].pc = pc]

\* The call returns to its caller, or raises: the plugin thread does not
\* survive that.
Return(w) == local' = [local EXCEPT ![w] = Idle] /\ acked' = mem
Raise(w) ==
  /\ local' = [local EXCEPT ![w] = [Idle EXCEPT !.pc = IF w = "tick" THEN "dead" ELSE "idle"]]
  /\ acked' = acked

-------------------------------------------------------------------------------
(* The change, in memory *)

\* upsert, and set_state on the record of k.
Upsert(w, k, version) ==
  /\ Start(w)
  /\ mem' = [mem EXCEPT ![k] = version]
  /\ Goto(w, "clear")
  /\ UNCHANGED <<storage, file, acked>>

\* prune, when it finds something to drop.  An id that comes back is met again
\* by whoever is iterating.
Prune(S) ==
  /\ Start("tick")
  /\ S # {} /\ S \subseteq KeysOf(mem)
  /\ mem' = [k \in Keys |-> IF k \in S THEN None ELSE mem[k]]
  /\ local' = [w \in Writers |->
                IF w = "tick" THEN [Idle EXCEPT !.pc = "clear"]
                              ELSE [local[w] EXCEPT !.done = @ \ S]]
  /\ UNCHANGED <<storage, file, acked>>

-------------------------------------------------------------------------------
(* _persist *)

Doomed_Known == KeysOf(storage) \cap KeysOf(mem)

\* What clear will pop.
Doomed == KeysOf(storage)

\* A persist that leaves the work to one already under way.
Clear_Coalesced(w) ==
  LET working == {v \in Writers \ {w} : local[v].pc \in {"pop", "iterate", "refill", "assign"}} IN
  /\ At(w, "clear")
  /\ \/ working # {} /\ Return(w)
     \/ /\ working = {} /\ acked' = acked
        /\ local' = [local EXCEPT ![w] = [Idle EXCEPT !.pc = "pop", !.left = Doomed]]
  /\ UNCHANGED <<mem, storage, file, met, cut>>

Clear(w) ==
  /\ At(w, "clear")
  /\ local' = [local EXCEPT ![w] = [Idle EXCEPT !.pc = "pop", !.left = Doomed]]
  /\ UNCHANGED <<contents, met, cut>>

PopKey(w, k) ==
  /\ At(w, "pop") /\ k \in local[w].left /\ storage[k] # None
  /\ storage' = [storage EXCEPT ![k] = None]
  /\ local' = [local EXCEPT ![w].left = @ \ {k}]
  /\ UNCHANGED <<mem, file, acked, met, cut>>

\* Another writer has popped k: KeyError, and the persist goes no further.
PopMissing(w, k) ==
  /\ At(w, "pop") /\ k \in local[w].left /\ storage[k] = None
  /\ Raise(w) /\ cut' = TRUE
  /\ UNCHANGED <<mem, storage, file, met>>

PopEnd(w) ==
  /\ At(w, "pop") /\ local[w].left = {}
  /\ Goto(w, "iterate")
  /\ UNCHANGED <<contents, met, cut>>

Pop(w) == PopEnd(w) \/ \E k \in Keys : PopKey(w, k) \/ PopMissing(w, k)

Iterate(w) ==
  /\ At(w, "iterate")
  /\ local' = [local EXCEPT ![w] = [Idle EXCEPT !.pc = "refill", !.size = Size(mem)]]
  /\ UNCHANGED <<contents, met, cut>>

\* The records the iteration has yet to come to.
Ahead(w) == KeysOf(mem) \ local[w].done

\* The next record is converted; RuntimeError if records came or went.
Refill(w) ==
  /\ At(w, "refill")
  /\ \/ Size(mem) # local[w].size /\ Raise(w)
     \/ /\ Size(mem) = local[w].size
        /\ \E k \in Ahead(w) :
             local' = [local EXCEPT ![w].pc = "assign", ![w].done = @ \cup {k},
                                    ![w].key = k, ![w].value = mem[k]]
        /\ acked' = acked
     \/ Size(mem) = local[w].size /\ Ahead(w) = {} /\ Goto(w, "open") /\ acked' = acked
  /\ UNCHANGED <<mem, storage, file, met, cut>>

Assign(w) ==
  /\ At(w, "assign")
  /\ storage' = [storage EXCEPT ![local[w].key] = local[w].value]
  /\ local' = [local EXCEPT ![w] = [@ EXCEPT !.pc = "refill", !.key = None, !.value = None]]
  /\ UNCHANGED <<mem, file, acked, met, cut>>

\* store takes the lock, truncates the file, ...
Open(w) ==
  /\ At(w, "open") /\ \A v \in Writers : ~At(v, "dump")
  /\ file' = Torn
  /\ local' = [local EXCEPT ![w] = [Idle EXCEPT !.pc = "dump", !.size = Size(storage)]]
  /\ UNCHANGED <<mem, storage, acked, met, cut>>

\* ... and writes what the storage holds, unless that changes its size.
Dump(w) ==
  /\ At(w, "dump")
  /\ \/ Size(storage) # local[w].size /\ Raise(w) /\ file' = file
     \/ Size(storage) = local[w].size /\ Return(w) /\ file' = storage
  /\ UNCHANGED <<mem, storage, met, cut>>

-------------------------------------------------------------------------------
Loaded_AsIs(f) == f

Loaded(f) == IF f = Torn THEN Empty ELSE f

\* The process is killed, and _load reads the file at the next start.
Crash ==
  /\ mem' = Loaded(file) /\ storage' = mem' /\ acked' = mem'
  /\ local' = [w \in Writers |-> Idle]
  /\ met' = FALSE /\ cut' = FALSE
  /\ UNCHANGED file

Persist(w) ==
  Clear(w) \/ Pop(w) \/ Iterate(w) \/ Refill(w) \/ Assign(w) \/ Open(w) \/ Dump(w)

Next ==
  \/ \E w \in Workers, k \in Keys, v \in Versions : Upsert(w, k, v)
  \/ \E S \in SUBSET Keys : Prune(S)
  \/ \E w \in Writers : Persist(w)
  \/ Crash

Spec == Init /\ [][Next]_vars

-------------------------------------------------------------------------------
(* Properties *)

(***************************************************************************)
(* As long as changes come one at a time, the file is as good as the       *)
(* memory: at rest it holds just the same records, pruned ones gone, and   *)
(* a kill during a change finds the records before it or after it.  The    *)
(* exception is a kill while the file is written: it is torn then, and all *)
(* the records are lost.                                                   *)
(***************************************************************************)
DurableWhenAlone ==
  ~met =>
    /\ Quiet => Loaded(file) = mem
    /\ (\A w \in Writers : ~At(w, "dump")) => Loaded(file) \in {acked, mem}

(***************************************************************************)
(* Changes that do overlap, with one emptying what the other has filled,   *)
(* storing it half full or raising half way, still leave no notification   *)
(* out of the file once all is quiet: the last to empty the storage fills  *)
(* it and stores it.  This holds until a prune overlaps another change, or *)
(* a clear fails on a key that is gone: what it had popped by then may be  *)
(* missing from what the others store.                                     *)
(***************************************************************************)
OverlapsLoseNothing == ~cut /\ Quiet => KeysOf(Loaded(file)) = KeysOf(mem)
===============================================================================
