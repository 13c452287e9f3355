---------------------------- MODULE JsonStoreProofs ----------------------------
(***************************************************************************)
(* Theorems about JsonStore, for any records, contents and workers: what   *)
(* the file is worth when changes come one at a time, and under which      *)
(* conditions changes that overlap leave nothing out of it.                *)
(***************************************************************************)
EXTENDS JsonStore, FiniteSetTheorems, TLAPS

AtWork == {w \in Writers : ~Resting(w)}
OthersKeep(w) == \A v \in Writers : v # w => local'[v] = local[v]

Pcs == {"idle", "dead", "clear", "pop", "iterate", "refill", "assign", "open", "dump"}

-------------------------------------------------------------------------------
(* What each step does, field by field *)

LEMMA SizeType == ASSUME NEW c  PROVE Size(c) \in Nat
  <1>1. IsFiniteSet(KeysOf(c))
    BY StoreAssumption, FS_Subset DEF KeysOf
  <1> QED  BY <1>1, FS_CardinalityType DEF Size

LEMMA SizeSame == ASSUME NEW c, NEW d, KeysOf(c) = KeysOf(d)  PROVE Size(c) = Size(d)
  BY DEF Size

LEMMA IdleFields ==
  ASSUME NEW pc \in Pcs,
         NEW size \in Nat
  PROVE  LET r == [Idle EXCEPT !.pc = pc, !.size = size] IN
           r \in Local /\ r.pc = pc /\ r.size = size /\ r.done = {}
  BY DEF Idle, Local, Pcs

LEMMA GotoFields ==
  ASSUME TypeOK, NEW w \in Writers,
         NEW pc \in Pcs,
         Goto(w, pc)
  PROVE  /\ local' \in [Writers -> Local] /\ OthersKeep(w)
         /\ local'[w].pc = pc /\ local'[w].done = local[w].done
         /\ local'[w].size = local[w].size
  <1> DEFINE r == local[w]
             s == [r EXCEPT !.pc = pc]
  <1>1. r \in Local
    BY DEF TypeOK
  <1> HIDE DEF r
  <1>2. s \in Local /\ s.pc = pc /\ s.done = r.done /\ s.size = r.size
    BY <1>1 DEF Local, Pcs
  <1> HIDE DEF s
  <1>3. local' = [local EXCEPT ![w] = s]
    BY DEF Goto, r, s
  <1> QED  BY <1>2, <1>3 DEF TypeOK, OthersKeep, r

LEMMA ReturnFields ==
  ASSUME TypeOK, NEW w \in Writers, Return(w)
  PROVE  /\ local' \in [Writers -> Local] /\ OthersKeep(w)
         /\ local'[w].pc = "idle" /\ acked' = mem
  BY DEF TypeOK, Return, Idle, Local, OthersKeep

LEMMA RaiseFields ==
  ASSUME TypeOK, NEW w \in Writers, Raise(w)
  PROVE  /\ local' \in [Writers -> Local] /\ OthersKeep(w)
         /\ local'[w].pc \in {"idle", "dead"} /\ acked' = acked
  BY DEF TypeOK, Raise, Idle, Local, OthersKeep

LEMMA UpsertStep ==
  ASSUME TypeOK, NEW w \in Workers, NEW k \in Keys, NEW v \in Versions, Upsert(w, k, v)
  PROVE  /\ w \in Writers /\ At(w, "idle")
         /\ mem' \in Contents /\ mem'[k] = v /\ \A j \in Keys : j # k => mem'[j] = mem[j]
         /\ KeysOf(mem') = KeysOf(mem) \cup {k}
         /\ local' \in [Writers -> Local] /\ OthersKeep(w) /\ local'[w].pc = "clear"
         /\ UNCHANGED <<storage, file, acked>>
         /\ ~met' => AtWork = {} /\ ~met
         /\ ~cut' => ~cut /\ (AtWork # {} => "tick" \notin AtWork \cup {w})
         /\ met' \in BOOLEAN /\ cut' \in BOOLEAN
  <1>1. w \in Writers
    BY DEF Writers
  <1>2. Goto(w, "clear") /\ mem' = [mem EXCEPT ![k] = v] /\ At(w, "idle")
    BY DEF Upsert, Start
  <1>3. local' \in [Writers -> Local] /\ OthersKeep(w) /\ local'[w].pc = "clear"
    BY <1>1, <1>2, GotoFields DEF Pcs
  <1>4. mem' \in Contents /\ mem'[k] = v /\ \A j \in Keys : j # k => mem'[j] = mem[j]
    BY <1>2 DEF TypeOK, Contents
  <1>5. KeysOf(mem') = KeysOf(mem) \cup {k}
    BY <1>4, StoreAssumption DEF KeysOf
  <1> QED  BY <1>1, <1>2, <1>3, <1>4, <1>5 DEF Upsert, Start, AtWork, TypeOK

LEMMA PruneStep ==
  ASSUME TypeOK, NEW S \in SUBSET Keys, Prune(S)
  PROVE  /\ "tick" \in Writers /\ At("tick", "idle")
         /\ mem' \in Contents
         /\ local' \in [Writers -> Local] /\ local'["tick"].pc = "clear"
         /\ \A w \in Writers : w # "tick" => local'[w].pc = local[w].pc
         /\ UNCHANGED <<storage, file, acked>>
         /\ ~met' => AtWork = {} /\ ~met
         /\ ~cut' => AtWork = {} /\ ~cut
         /\ met' \in BOOLEAN /\ cut' \in BOOLEAN
  <1>1. "tick" \in Writers
    BY DEF Writers
  <1>2. mem' \in Contents
    BY DEF Prune, TypeOK, Contents
  <1>3. ASSUME NEW w \in Writers
        PROVE  local'[w] \in Local /\ local'[w].pc = IF w = "tick" THEN "clear" ELSE local[w].pc
    <2>1. CASE w = "tick"
      BY <2>1 DEF Prune, Idle, Local
    <2>2. CASE w # "tick"
      <3> DEFINE r == local[w]
                 s == [r EXCEPT !.done = r.done \ S]
      <3>1. r \in Local
        BY DEF TypeOK
      <3> HIDE DEF r
      <3>2. s \in Local /\ s.pc = r.pc
        BY <3>1 DEF Local
      <3> HIDE DEF s
      <3>3. local'[w] = s
        BY <2>2 DEF Prune, r, s
      <3> QED  BY <2>2, <3>2, <3>3 DEF r
    <2> QED  BY <2>1, <2>2
  <1>4. local' \in [Writers -> Local]
    BY <1>3 DEF Prune
  <1> QED  BY <1>1, <1>2, <1>3, <1>4 DEF Prune, Start, AtWork, At, TypeOK

LEMMA ClearStep ==
  ASSUME TypeOK, NEW w \in Writers, Clear(w)
  PROVE  /\ At(w, "clear")
         /\ local' \in [Writers -> Local] /\ OthersKeep(w)
         /\ local'[w].pc = "pop" /\ local'[w].left = KeysOf(storage)
         /\ UNCHANGED <<mem, storage, file, acked, met, cut>>
  <1> DEFINE left == KeysOf(storage)
             r == [Idle EXCEPT !.pc = "pop", !.left = left]
  <1>1. left \in SUBSET Keys
    BY DEF KeysOf
  <1> HIDE DEF left
  <1>2. r \in Local /\ r.pc = "pop" /\ r.left = left
    BY <1>1 DEF Idle, Local
  <1> HIDE DEF r
  <1>3. local' = [local EXCEPT ![w] = r]
    BY DEF Clear, Doomed, r, left
  <1> QED  BY <1>2, <1>3 DEF Clear, TypeOK, OthersKeep, contents, left

\* Pop has come to the end, removes a key or raises.
LEMMA PopStep ==
  ASSUME TypeOK, NEW w \in Writers, Pop(w)
  PROVE  /\ At(w, "pop") /\ storage' \in Contents
         /\ local' \in [Writers -> Local] /\ OthersKeep(w)
         /\ \/ /\ local[w].left = {} /\ local'[w].pc = "iterate"
               /\ UNCHANGED <<storage, cut>>
            \/ /\ local'[w].pc = "pop" /\ cut' = cut
               /\ \E k \in local[w].left :
                    /\ local'[w].left = local[w].left \ {k}
                    /\ KeysOf(storage') = KeysOf(storage) \ {k}
            \/ /\ ~(local[w].left \subseteq KeysOf(storage)) /\ cut'
               /\ local'[w].pc \in {"idle", "dead"} /\ UNCHANGED storage
         /\ cut' \in BOOLEAN /\ UNCHANGED <<mem, file, acked, met>>
  <1>1. CASE PopEnd(w)
    BY <1>1, GotoFields DEF PopEnd, contents, TypeOK, Pcs
  <1>2. ASSUME NEW k \in Keys, PopKey(w, k)
        PROVE  /\ At(w, "pop") /\ k \in local[w].left /\ storage' \in Contents
               /\ local' \in [Writers -> Local] /\ OthersKeep(w)
               /\ local'[w].pc = "pop" /\ local'[w].left = local[w].left \ {k}
               /\ KeysOf(storage') = KeysOf(storage) \ {k}
               /\ UNCHANGED <<mem, file, acked, met, cut>>
    <2> DEFINE r == local[w]
               s == [r EXCEPT !.left = r.left \ {k}]
    <2>1. r \in Local /\ r.pc = "pop"
      BY <1>2 DEF TypeOK, PopKey, At
    <2>2. local' = [local EXCEPT ![w] = s]
      BY <1>2 DEF PopKey, TypeOK
    <2> HIDE DEF r
    <2>3. s \in Local /\ s.pc = "pop" /\ s.left = r.left \ {k}
      BY <2>1 DEF Local
    <2> HIDE DEF s
    <2>4. local' \in [Writers -> Local] /\ OthersKeep(w) /\ local'[w] = s
      BY <2>2, <2>3 DEF TypeOK, OthersKeep
    <2>5. storage' \in Contents /\ KeysOf(storage') = KeysOf(storage) \ {k}
      BY <1>2 DEF PopKey, TypeOK, Contents, KeysOf
    <2> QED  BY <1>2, <2>3, <2>4, <2>5 DEF PopKey, r
  <1>3. ASSUME NEW k \in Keys, PopMissing(w, k)
        PROVE  /\ At(w, "pop") /\ ~(local[w].left \subseteq KeysOf(storage)) /\ cut'
               /\ local' \in [Writers -> Local] /\ OthersKeep(w)
               /\ local'[w].pc \in {"idle", "dead"}
               /\ UNCHANGED <<mem, storage, file, acked, met>>
    <2>1. ~(local[w].left \subseteq KeysOf(storage))
      BY <1>3 DEF PopMissing, KeysOf
    <2> QED  BY <1>3, <2>1, RaiseFields DEF PopMissing
  <1>4. cut' \in BOOLEAN
    BY <1>1, <1>2, <1>3 DEF Pop, PopEnd, PopMissing, TypeOK
  <1> QED  BY <1>1, <1>2, <1>3, <1>4 DEF Pop, TypeOK

LEMMA IterateStep ==
  ASSUME TypeOK, NEW w \in Writers, Iterate(w)
  PROVE  /\ At(w, "iterate")
         /\ local' \in [Writers -> Local] /\ OthersKeep(w)
         /\ local'[w].pc = "refill" /\ local'[w].size = Size(mem) /\ local'[w].done = {}
         /\ UNCHANGED <<mem, storage, file, acked, met, cut>>
  <1> DEFINE size == Size(mem)
             r == [Idle EXCEPT !.pc = "refill", !.size = size]
  <1>1. size \in Nat
    BY SizeType
  <1> HIDE DEF size
  <1>2. r \in Local /\ r.pc = "refill" /\ r.size = size /\ r.done = {}
    BY <1>1, IdleFields DEF Pcs
  <1> HIDE DEF r
  <1>3. local' = [local EXCEPT ![w] = r]
    BY DEF Iterate, r, size
  <1> QED  BY <1>2, <1>3 DEF Iterate, TypeOK, OthersKeep, contents, size

\* Refill raises, takes the next record or has come to the end.
LEMMA RefillStep ==
  ASSUME TypeOK, NEW w \in Writers, Refill(w)
  PROVE  /\ At(w, "refill")
         /\ local' \in [Writers -> Local] /\ OthersKeep(w)
         /\ \/ Size(mem) # local[w].size /\ local'[w].pc \in {"idle", "dead"}
            \/ /\ Size(mem) = local[w].size
               /\ local'[w].pc = "assign" /\ local'[w].size = local[w].size
               /\ \E k \in KeysOf(mem) \ local[w].done :
                    /\ local'[w].done = local[w].done \cup {k}
                    /\ local'[w].key = k /\ local'[w].value = mem[k]
            \/ /\ Size(mem) = local[w].size /\ KeysOf(mem) \subseteq local[w].done
               /\ local'[w].pc = "open"
         /\ UNCHANGED <<mem, storage, file, acked, met, cut>>
  <1>1. At(w, "refill") /\ UNCHANGED <<mem, storage, file, met, cut>>
    BY DEF Refill
  <1>2. CASE Size(mem) # local[w].size /\ Raise(w)
    BY <1>1, <1>2, RaiseFields
  <1>3. CASE /\ Size(mem) = local[w].size
             /\ \E k \in Ahead(w) :
                  local' = [local EXCEPT ![w].pc = "assign", ![w].done = @ \cup {k},
                                         ![w].key = k, ![w].value = mem[k]]
             /\ acked' = acked
    <2>1. PICK k \in Ahead(w) :
            local' = [local EXCEPT ![w].pc = "assign", ![w].done = @ \cup {k},
                                   ![w].key = k, ![w].value = mem[k]]
      BY <1>3
    <2> DEFINE r == local[w]
               value == mem[k]
               s == [r EXCEPT !.pc = "assign", !.done = r.done \cup {k},
                              !.key = k, !.value = value]
    <2>2. r \in Local /\ k \in Keys /\ value \in Versions \cup {None}
      BY DEF TypeOK, Ahead, KeysOf, Contents
    <2>3. local' = [local EXCEPT ![w] = s]
      BY <2>1, <2>2 DEF TypeOK
    <2> HIDE DEF r, value
    <2>4. /\ s \in Local /\ s.pc = "assign" /\ s.size = r.size /\ s.done = r.done \cup {k}
          /\ s.key = k /\ s.value = value
      BY <2>2 DEF Local
    <2> HIDE DEF s
    <2>5. local' \in [Writers -> Local] /\ OthersKeep(w) /\ local'[w] = s
      BY <2>3, <2>4 DEF TypeOK, OthersKeep
    <2> QED  BY <1>1, <1>3, <2>4, <2>5 DEF Ahead, r, value
  <1>4. CASE Size(mem) = local[w].size /\ Ahead(w) = {} /\ Goto(w, "open") /\ acked' = acked
    <2>1. KeysOf(mem) \subseteq local[w].done
      BY <1>4 DEF Ahead
    <2> QED  BY <1>1, <1>4, <2>1, GotoFields DEF Pcs
  <1> QED  BY <1>2, <1>3, <1>4 DEF Refill

LEMMA AssignStep ==
  ASSUME TypeOK, NEW w \in Writers, Assign(w)
  PROVE  /\ At(w, "assign")
         /\ storage' = [storage EXCEPT ![local[w].key] = local[w].value] /\ storage' \in Contents
         /\ local' \in [Writers -> Local] /\ OthersKeep(w)
         /\ local'[w].pc = "refill" /\ local'[w].size = local[w].size
         /\ local'[w].done = local[w].done
         /\ UNCHANGED <<mem, file, acked, met, cut>>
  <1> DEFINE r == local[w]
             s == [r EXCEPT !.pc = "refill", !.key = None, !.value = None]
  <1>1. r \in Local
    BY DEF TypeOK
  <1>2. local' = [local EXCEPT ![w] = s]
    BY DEF Assign, TypeOK
  <1>3. storage' \in Contents
    BY <1>1 DEF Assign, TypeOK, Contents, Local
  <1> HIDE DEF r
  <1>4. s \in Local /\ s.pc = "refill" /\ s.size = r.size /\ s.done = r.done
    BY <1>1 DEF Local
  <1> HIDE DEF s
  <1>5. local' \in [Writers -> Local] /\ OthersKeep(w) /\ local'[w] = s
    BY <1>2, <1>4 DEF TypeOK, OthersKeep
  <1> QED  BY <1>3, <1>4, <1>5 DEF Assign, r

LEMMA OpenStep ==
  ASSUME TypeOK, NEW w \in Writers, Open(w)
  PROVE  /\ At(w, "open") /\ (\A v \in Writers : ~At(v, "dump")) /\ file' = Torn
         /\ local' \in [Writers -> Local] /\ OthersKeep(w)
         /\ local'[w].pc = "dump" /\ local'[w].size = Size(storage)
         /\ UNCHANGED <<mem, storage, acked, met, cut>>
  <1> DEFINE size == Size(storage)
             r == [Idle EXCEPT !.pc = "dump", !.size = size]
  <1>1. size \in Nat
    BY SizeType
  <1> HIDE DEF size
  <1>2. r \in Local /\ r.pc = "dump" /\ r.size = size /\ r.done = {}
    BY <1>1, IdleFields DEF Pcs
  <1> HIDE DEF r
  <1>3. local' = [local EXCEPT ![w] = r]
    BY DEF Open, r, size
  <1> QED  BY <1>2, <1>3 DEF Open, TypeOK, OthersKeep, size

LEMMA DumpStep ==
  ASSUME TypeOK, NEW w \in Writers, Dump(w)
  PROVE  /\ At(w, "dump")
         /\ local' \in [Writers -> Local] /\ OthersKeep(w)
         /\ local'[w].pc \in {"idle", "dead"}
         /\ \/ Size(storage) # local[w].size /\ file' = file /\ acked' = acked
            \/ Size(storage) = local[w].size /\ file' = storage /\ acked' = mem
         /\ UNCHANGED <<mem, storage, met, cut>>
  BY ReturnFields, RaiseFields DEF Dump

LEMMA LoadedType == ASSUME TypeOK  PROVE Loaded(file) \in Contents
  BY DEF TypeOK, Loaded, Empty, Contents

LEMMA CrashStep ==
  ASSUME TypeOK, Crash
  PROVE  /\ mem' = Loaded(file) /\ storage' = mem' /\ acked' = mem' /\ file' = file
         /\ mem' \in Contents
         /\ local' = [w \in Writers |-> Idle] /\ met' = FALSE /\ cut' = FALSE
  BY LoadedType DEF Crash

LEMMA TypeKept == ASSUME TypeOK, [Next]_vars  PROVE TypeOK'
  <1>1. CASE UNCHANGED vars
    BY <1>1 DEF vars, TypeOK
  <1>2. ASSUME NEW w \in Workers, NEW k \in Keys, NEW v \in Versions, Upsert(w, k, v)
        PROVE  TypeOK'
    BY <1>2, UpsertStep DEF TypeOK
  <1>3. ASSUME NEW S \in SUBSET Keys, Prune(S)  PROVE TypeOK'
    BY <1>3, PruneStep DEF TypeOK
  <1>5. ASSUME NEW w \in Writers, Persist(w)  PROVE TypeOK'
    <2>0. CASE Pop(w)
      BY <2>0, PopStep DEF TypeOK
    <2>1. CASE Clear(w) \/ Iterate(w)
      BY <2>1, ClearStep, IterateStep DEF TypeOK
    <2>2. CASE Refill(w) \/ Assign(w)
      BY <2>2, RefillStep, AssignStep DEF TypeOK
    <2>3. CASE Open(w) \/ Dump(w)
      BY <2>3, OpenStep, DumpStep DEF TypeOK
    <2> QED  BY <1>5, <2>0, <2>1, <2>2, <2>3 DEF Persist
  <1>6. CASE Crash
    <2>1. local' \in [Writers -> Local]
      BY <1>6, CrashStep DEF Idle, Local
    <2> QED  BY <1>6, <2>1, CrashStep DEF TypeOK
  <1> QED  BY <1>1, <1>2, <1>3, <1>5, <1>6 DEF Next

LEMMA InitType == Init => TypeOK
  <1>1. Idle \in Local /\ Empty \in Contents
    BY DEF Idle, Local, Empty, Contents
  <1> QED  BY <1>1 DEF Init, TypeOK

-------------------------------------------------------------------------------
(* Changes that come one at a time *)

\* How far the one writer at work is, and what the file is worth.
FilledWith(done) == storage = [k \in Keys |-> IF k \in done THEN mem[k] ELSE None]

Progress(w) ==
  /\ ~At(w, "dump") => Loaded(file) = acked
  /\ At(w, "pop") => KeysOf(storage) = local[w].left
  /\ At(w, "iterate") => storage = Empty
  /\ At(w, "refill") => local[w].size = Size(mem) /\ FilledWith(local[w].done)
  /\ At(w, "assign") =>
       /\ local[w].size = Size(mem) /\ FilledWith(local[w].done \ {local[w].key})
       /\ local[w].key \in local[w].done /\ local[w].value = mem[local[w].key]
  /\ At(w, "open") => storage = mem
  /\ At(w, "dump") => storage = mem /\ local[w].size = Size(storage)

Alone ==
  ~met =>
    /\ \A v, w \in AtWork : v = w
    /\ AtWork = {} => Loaded(file) = mem /\ acked = mem
    /\ \A w \in AtWork : Progress(w)

\* It is enough to look at the writer that takes the step.
LEMMA AloneFromOne ==
  ASSUME NEW w \in Writers, \A v \in Writers : v # w => v \notin AtWork',
         w \in AtWork' => Progress(w)',
         w \notin AtWork' => Loaded(file)' = mem' /\ acked' = mem'
  PROVE  Alone'
  <1>1. AtWork' \subseteq {w}
    BY DEF AtWork
  <1> QED  BY <1>1 DEF Alone

LEMMA StartsAlone ==
  ASSUME TypeOK, Alone, NEW w \in Writers, AtWork = {}, ~met,
         \A v \in Writers : v # w => local'[v].pc = local[v].pc,
         local'[w].pc = "clear", UNCHANGED <<storage, file, acked>>
  PROVE  Alone'
  <1>1. \A v \in Writers : v # w => v \notin AtWork'
    BY DEF AtWork, Resting
  <1>2. w \in AtWork'
    BY DEF AtWork, Resting
  <1>3. Progress(w)'
    BY DEF Alone, Progress, At, Loaded
  <1> QED  BY <1>1, <1>2, <1>3, AloneFromOne

LEMMA PersistsAlone ==
  ASSUME TypeOK, Alone, NEW w \in Writers, Persist(w)
  PROVE  Alone'
  <1>1. UNCHANGED <<mem, met>> /\ OthersKeep(w) /\ w \in AtWork
    BY ClearStep, PopStep, IterateStep, RefillStep, AssignStep, OpenStep, DumpStep
    DEF Persist, AtWork, Resting, At
  <1> SUFFICES ASSUME ~met  PROVE Alone'
    BY <1>1 DEF Alone
  <1>2. Progress(w) /\ \A v \in AtWork : v = w
    BY <1>1 DEF Alone
  <1>3. \A v \in Writers : v # w => v \notin AtWork'
    BY <1>1, <1>2 DEF AtWork, Resting, OthersKeep
  <1> DEFINE Kept == IF w \in AtWork' THEN Progress(w)' ELSE Loaded(file)' = mem' /\ acked' = mem'
  <1>4. SUFFICES Kept
    BY <1>3, AloneFromOne
  <1>5. CASE Clear(w)
    BY <1>2, <1>5, ClearStep DEF AtWork, Resting, Progress, At, Loaded
  <1>6. CASE Iterate(w)
    <2>1. FilledWith({})'
      BY <1>2, <1>6, IterateStep DEF Progress, FilledWith, Empty
    <2>2. Loaded(file) = acked
      BY <1>2, <1>6, IterateStep DEF Progress, At
    <2>3. /\ local'[w].pc = "refill" /\ local'[w].size = Size(mem) /\ local'[w].done = {}
          /\ UNCHANGED <<mem, file, acked>>
      BY <1>6, IterateStep
    <2> QED  BY <2>1, <2>2, <2>3 DEF AtWork, Resting, Progress, At, Loaded, Size
  <1>7. CASE Refill(w)
    <2>1. At(w, "refill") /\ local[w].size = Size(mem) /\ FilledWith(local[w].done)
          /\ Loaded(file) = acked
      BY <1>2, <1>7, RefillStep DEF Progress, At
    <2>2. UNCHANGED <<mem, storage, file, acked>>
      BY <1>7, RefillStep
    <2>3. CASE /\ local'[w].pc = "assign" /\ local'[w].size = local[w].size
               /\ \E k \in KeysOf(mem) \ local[w].done :
                    /\ local'[w].done = local[w].done \cup {k}
                    /\ local'[w].key = k /\ local'[w].value = mem[k]
      <3>1. PICK k \in KeysOf(mem) \ local[w].done :
              /\ local'[w].done = local[w].done \cup {k}
              /\ local'[w].key = k /\ local'[w].value = mem[k]
        BY <2>3
      <3>2. local'[w].done \ {local'[w].key} = local[w].done
        BY <3>1
      <3>3. FilledWith(local[w].done \ {local[w].key})'
        BY <2>1, <2>2, <3>2 DEF FilledWith
      <3> QED  BY <2>1, <2>2, <2>3, <3>1, <3>3 DEF AtWork, Resting, Progress, At, Loaded
    <2>4. CASE KeysOf(mem) \subseteq local[w].done /\ local'[w].pc = "open"
      <3>1. storage = mem
        BY <2>1, <2>4 DEF FilledWith, KeysOf, TypeOK, Contents
      <3> QED  BY <2>1, <2>2, <2>4, <3>1 DEF AtWork, Resting, Progress, At, Loaded
    <2> QED  BY <1>7, <2>1, <2>3, <2>4, RefillStep
  <1>8. CASE Assign(w)
    <2>1. /\ At(w, "assign") /\ local[w].size = Size(mem)
          /\ FilledWith(local[w].done \ {local[w].key})
          /\ local[w].key \in local[w].done /\ local[w].value = mem[local[w].key]
          /\ Loaded(file) = acked
      BY <1>2, <1>8, AssignStep DEF Progress, At
    <2>2. storage' = [k \in Keys |-> IF k \in local[w].done THEN mem[k] ELSE None]
      <3>1. storage' = [storage EXCEPT ![local[w].key] = local[w].value] /\ storage' \in Contents
        BY <1>8, AssignStep
      <3> QED  BY <2>1, <3>1 DEF FilledWith, TypeOK, Contents
    <2>3. FilledWith(local[w].done)'
      BY <1>8, <2>2, AssignStep DEF FilledWith
    <2> QED  BY <1>8, <2>1, <2>3, AssignStep DEF AtWork, Resting, Progress, At, Loaded
  <1>9. CASE Open(w)
    BY <1>2, <1>9, OpenStep DEF AtWork, Resting, Progress, At, Loaded
  <1>10. CASE Dump(w)
    <2>1. storage = mem /\ local[w].size = Size(storage)
      BY <1>2, <1>10, DumpStep DEF Progress
    <2>2. file' = mem /\ acked' = mem /\ w \notin AtWork'
      BY <1>10, <2>1, DumpStep DEF AtWork, Resting
    <2>3. mem # Torn
      BY StoreAssumption DEF TypeOK, Contents
    <2> QED  BY <1>1, <2>2, <2>3 DEF Loaded
  <1>11. CASE Pop(w)
    <2>1. KeysOf(storage) = local[w].left /\ Loaded(file) = acked
      BY <1>2, <1>11, PopStep DEF Progress, At
    <2>2. storage' \in Contents /\ UNCHANGED <<file, acked>>
      BY <1>11, PopStep
    <2>3. CASE local[w].left = {} /\ local'[w].pc = "iterate" /\ UNCHANGED storage
      <3>1. storage' = Empty
        BY <2>1, <2>2, <2>3 DEF KeysOf, Contents, Empty
      <3> QED  BY <2>1, <2>2, <2>3, <3>1 DEF AtWork, Resting, Progress, At, Loaded
    <2>4. CASE /\ local'[w].pc = "pop"
               /\ \E k \in local[w].left :
                    /\ local'[w].left = local[w].left \ {k}
                    /\ KeysOf(storage') = KeysOf(storage) \ {k}
      <3>1. KeysOf(storage)' = local'[w].left
        BY <2>1, <2>4 DEF KeysOf
      <3> QED  BY <2>1, <2>2, <2>4, <3>1 DEF AtWork, Resting, Progress, At, Loaded
    <2> QED  BY <1>11, <2>1, <2>3, <2>4, PopStep
  <1> QED  BY <1>5, <1>6, <1>7, <1>8, <1>9, <1>10, <1>11 DEF Persist

LEMMA AloneKept == ASSUME TypeOK, Alone, [Next]_vars  PROVE Alone'
  <1>1. CASE UNCHANGED vars
    BY <1>1 DEF vars, Alone, AtWork, Resting, Progress, FilledWith, At, Loaded
  <1>2. ASSUME NEW w \in Workers, NEW k \in Keys, NEW v \in Versions, Upsert(w, k, v)
        PROVE  Alone'
    <2>1. CASE met'
      BY <2>1 DEF Alone
    <2>2. CASE ~met'
      BY <1>2, <2>2, UpsertStep, StartsAlone DEF OthersKeep
    <2> QED  BY <2>1, <2>2
  <1>3. ASSUME NEW S \in SUBSET Keys, Prune(S)  PROVE Alone'
    <2>1. CASE met'
      BY <2>1 DEF Alone
    <2>2. CASE ~met'
      BY <1>3, <2>2, PruneStep, StartsAlone
    <2> QED  BY <2>1, <2>2
  <1>4. CASE Crash
    <2>1. AtWork' = {}
      BY <1>4, CrashStep DEF AtWork, Resting, Idle
    <2> QED  BY <1>4, <2>1, CrashStep DEF Alone, Loaded
  <1> QED  BY <1>1, <1>2, <1>3, <1>4, PersistsAlone DEF Next

LEMMA InitAlone == Init => Alone
  <1> SUFFICES ASSUME Init  PROVE Alone
    OBVIOUS
  <1>1. AtWork = {}
    BY DEF Init, AtWork, Resting, Idle
  <1>2. Empty # Torn
    BY StoreAssumption DEF Empty
  <1> QED  BY <1>1, <1>2 DEF Init, Alone, Loaded

(***************************************************************************)
(* For any number of records and workers, every variable stays within its  *)
(* type, through kills and half-done changes: what is loaded is a value    *)
(* the records can have, never a file that is half written.                *)
(***************************************************************************)
THEOREM TypeCorrect == Spec => []TypeOK
  BY InitType, TypeKept, PTL DEF Spec

(***************************************************************************)
(* As long as changes come one at a time, the file is as good as the       *)
(* memory: a kill at any step of a change finds the records before it or   *)
(* after it, except while the file is written.  Then it is torn, and no    *)
(* record is left of it.                                                   *)
(***************************************************************************)
THEOREM ChangesAloneAreDurable == Spec => []DurableWhenAlone
  <1>1. TypeOK /\ Alone => DurableWhenAlone
    <2> SUFFICES ASSUME Alone, ~met
                 PROVE  /\ Quiet => Loaded(file) = mem
                        /\ (\A w \in Writers : ~At(w, "dump")) => Loaded(file) \in {acked, mem}
      BY DEF DurableWhenAlone
    <2>1. CASE AtWork = {}
      BY <2>1 DEF Alone
    <2>2. CASE AtWork # {}
      <3>1. ~Quiet
        BY <2>2 DEF AtWork, Quiet
      <3>2. PICK w \in AtWork : Progress(w)
        BY <2>2 DEF Alone
      <3> QED  BY <3>1, <3>2 DEF AtWork, Progress
    <2> QED  BY <2>1, <2>2
  <1> QED  BY InitType, TypeKept, InitAlone, AloneKept, <1>1, PTL DEF Spec

-------------------------------------------------------------------------------
(* Changes that overlap *)

\* The file lock: one at a time writes the file.
OneDumps == \A v, w \in Writers : At(v, "dump") /\ At(w, "dump") => v = w

\* w is filling the storage with all the records there are, and has left in it
\* what it has been through.
Fills(w) ==
  /\ local[w].size = Size(mem)
  /\ \/ At(w, "refill") /\ local[w].done \subseteq KeysOf(storage)
     \/ At(w, "assign") /\ local[w].done \ {local[w].key} \subseteq KeysOf(storage)

\* w will fill the storage, or is doing it.
Pending(w) == At(w, "clear") \/ At(w, "pop") \/ At(w, "iterate") \/ Fills(w)

\* w will store what there is in the storage now.
Stores(w) == At(w, "open") \/ (At(w, "dump") /\ local[w].size = Size(storage))

\* The storage is complete, and so is the file, or will be.
Settled ==
  /\ KeysOf(storage) = KeysOf(mem)
  /\ \/ \E w \in Writers : Stores(w)
     \/ (\A w \in Writers : ~At(w, "dump")) /\ KeysOf(Loaded(file)) = KeysOf(mem)

PrunesAlone == "tick" \in AtWork => \A w \in Workers : w \notin AtWork

\* Nothing that was pruned is in the storage, but for what the prune has yet to
\* take out of it.
PrunedGone ==
  /\ ~At("tick", "clear") /\ ~At("tick", "pop") => KeysOf(storage) \subseteq KeysOf(mem)
  /\ At("tick", "pop") => KeysOf(storage) \subseteq local["tick"].left

Covered ==
  ~cut =>
    /\ PrunesAlone
    /\ PrunedGone
    /\ \A w \in Writers :
         At(w, "assign") => local[w].key \in KeysOf(mem) /\ local[w].value # None
    /\ (\E w \in Writers : Pending(w)) \/ Settled

LEMMA InitOverlaps == Init => OneDumps /\ Covered
  <1> SUFFICES ASSUME Init  PROVE OneDumps /\ Covered
    OBVIOUS
  <1>1. \A w \in Writers : local[w].pc = "idle"
    BY DEF Init, Idle
  <1>2. Empty # Torn
    BY StoreAssumption DEF Empty
  <1> QED  BY <1>1, <1>2
           DEF Init, OneDumps, Covered, PrunesAlone, PrunedGone, AtWork, Resting, At, Settled,
               Loaded, Writers

LEMMA OneDumpsKept == ASSUME TypeOK, OneDumps, [Next]_vars  PROVE OneDumps'
  <1>1. CASE UNCHANGED vars
    BY <1>1 DEF vars, OneDumps, At
  <1>2. ASSUME NEW w \in Workers, NEW k \in Keys, NEW v \in Versions, Upsert(w, k, v)
        PROVE  OneDumps'
    BY <1>2, UpsertStep DEF OneDumps, At, OthersKeep
  <1>3. ASSUME NEW S \in SUBSET Keys, Prune(S)  PROVE OneDumps'
    BY <1>3, PruneStep DEF OneDumps, At
  <1>4. ASSUME NEW w \in Writers, Persist(w)  PROVE OneDumps'
    <2>1. CASE Open(w)
      BY <2>1, OpenStep DEF OneDumps, At, OthersKeep
    <2>2. CASE ~Open(w)
      <3>1. OthersKeep(w) /\ local'[w].pc # "dump"
        BY <1>4, <2>2, ClearStep, PopStep, IterateStep, RefillStep, AssignStep, DumpStep DEF Persist
      <3> QED  BY <3>1 DEF OneDumps, At, OthersKeep
    <2> QED  BY <2>1, <2>2
  <1>5. CASE Crash
    BY <1>5, CrashStep DEF OneDumps, At, Idle
  <1> QED  BY <1>1, <1>2, <1>3, <1>4, <1>5 DEF Next

\* A change of the records puts off the question: who made it is to persist it.
LEMMA ChangeKeepsCovered ==
  ASSUME TypeOK, Covered,
         \/ \E w \in Workers, k \in Keys, v \in Versions : Upsert(w, k, v)
         \/ \E S \in SUBSET Keys : Prune(S)
  PROVE  Covered'
  <1> SUFFICES ASSUME ~cut'  PROVE Covered'
    BY DEF Covered
  <1>1. ASSUME NEW w \in Workers, NEW k \in Keys, NEW v \in Versions, Upsert(w, k, v)
        PROVE  Covered'
    <2>1. /\ w \in Writers /\ w # "tick" /\ "tick" \notin AtWork
          /\ local'["tick"] = local["tick"] /\ ~cut
          /\ local'[w].pc = "clear" /\ \A v1 \in Writers : v1 # w => local'[v1] = local[v1]
          /\ KeysOf(mem') = KeysOf(mem) \cup {k} /\ storage' = storage
      BY <1>1, UpsertStep, StoreAssumption DEF OthersKeep, Writers
    <2>2. PrunesAlone'
      BY <2>1 DEF PrunesAlone, AtWork, Resting, Writers
    <2>3. PrunedGone'
      BY <2>1 DEF Covered, PrunedGone, AtWork, Resting, At, Writers
    <2>4. ASSUME NEW v1 \in Writers, At(v1, "assign")'
          PROVE  local'[v1].key \in KeysOf(mem') /\ local'[v1].value # None
      BY <2>1, <2>4 DEF Covered, At
    <2>5. Pending(w)'
      BY <2>1 DEF Pending, At
    <2> QED  BY <2>1, <2>2, <2>3, <2>4, <2>5 DEF Covered
  <1>2. ASSUME NEW S \in SUBSET Keys, Prune(S)
        PROVE  Covered'
    <2>1. /\ "tick" \in Writers /\ AtWork = {} /\ local'["tick"].pc = "clear"
          /\ \A w \in Writers : w # "tick" => local'[w].pc = local[w].pc
      BY <1>2, PruneStep
    <2>2. \A w \in Writers : w # "tick" => w \notin AtWork' /\ ~At(w, "assign")'
      BY <2>1 DEF AtWork, Resting, At
    <2>3. PrunesAlone' /\ At("tick", "clear")' /\ ~At("tick", "assign")'
      BY <2>1, <2>2, StoreAssumption DEF PrunesAlone, At, Writers
    <2> QED  BY <2>1, <2>2, <2>3 DEF Covered, PrunedGone, Pending, At
  <1> QED  BY <1>1, <1>2

LEMMA PersistKeepsCovered ==
  ASSUME TypeOK, OneDumps, Covered, NEW w \in Writers, Persist(w)
  PROVE  Covered'
  <1>0. UNCHANGED mem /\ OthersKeep(w) /\ w \in AtWork
    BY ClearStep, PopStep, IterateStep, RefillStep, AssignStep, OpenStep, DumpStep
    DEF Persist, AtWork, Resting, At
  <1> SUFFICES ASSUME ~cut'  PROVE Covered'
    BY DEF Covered
  <1>1. UNCHANGED <<mem, cut>> /\ OthersKeep(w) /\ w \in AtWork /\ ~cut
    BY <1>0, ClearStep, PopStep, IterateStep, RefillStep, AssignStep, OpenStep, DumpStep
    DEF Persist
  <1>2. PrunesAlone'
    <2>1. AtWork' \subseteq AtWork
      BY <1>1 DEF AtWork, Resting, OthersKeep
    <2> QED  BY <1>1, <2>1 DEF Covered, PrunesAlone
  <1>3. At("tick", "clear") \/ At("tick", "pop") => w = "tick"
    BY <1>1, StoreAssumption DEF Covered, PrunesAlone, AtWork, Resting, At, Writers
  <1>4. CASE Clear(w)
    <2>1. /\ UNCHANGED storage /\ At(w, "clear")
          /\ local'[w].pc = "pop" /\ local'[w].left = KeysOf(storage)
      BY <1>4, ClearStep
    <2>2. PrunedGone'
      <3>1. CASE w = "tick"
        BY <2>1, <3>1 DEF PrunedGone, At
      <3>2. CASE w # "tick"
        <4>1. local'["tick"] = local["tick"]
          BY <1>1, <3>2 DEF OthersKeep, Writers
        <4> QED  BY <1>1, <2>1, <4>1 DEF Covered, PrunedGone, At
      <3> QED  BY <3>1, <3>2
    <2>3. \A v \in Writers : At(v, "assign")' => v # w
      BY <2>1 DEF At
    <2>4. Pending(w)'
      BY <2>1 DEF Pending, At
    <2> QED  BY <1>1, <1>2, <2>2, <2>3, <2>4 DEF Covered, OthersKeep, At
  <1>5. ~At(w, "clear") /\ ~At(w, "pop") => KeysOf(storage) \subseteq KeysOf(mem)
    BY <1>1, <1>3 DEF Covered, PrunedGone
  <1>6. CASE Iterate(w)
    <2>1. /\ storage' = storage /\ At(w, "iterate") /\ local'[w].pc = "refill"
          /\ local'[w].size = Size(mem) /\ local'[w].done = {}
      BY <1>6, IterateStep
    <2>2. Pending(w)'
      BY <1>1, <2>1 DEF Pending, Fills, At
    <2>3. PrunedGone'
      BY <1>1, <1>3, <1>5, <2>1 DEF PrunedGone, OthersKeep, At, Writers
    <2> QED  BY <1>1, <1>2, <2>1, <2>2, <2>3 DEF Covered, OthersKeep, At
  <1>7. ASSUME NEW v \in Writers, v # w, Pending(v), UNCHANGED storage
        PROVE  Pending(v)'
    BY <1>1, <1>7 DEF Pending, Fills, At, OthersKeep
  <1>8. CASE Refill(w)
    <2>1. /\ UNCHANGED <<storage, file>> /\ At(w, "refill")
          /\ local'[w].pc \notin {"dump", "clear", "pop"}
      BY <1>8, RefillStep
    <2>2. KeysOf(storage) \subseteq KeysOf(mem) /\ PrunedGone'
      BY <1>1, <1>3, <1>5, <2>1 DEF PrunedGone, OthersKeep, At, Writers
    <2>3. ASSUME NEW v \in Writers, At(v, "assign")'
          PROVE  local'[v].key \in KeysOf(mem) /\ local'[v].value # None
      <3>1. CASE v = w
        BY <1>8, <2>3, <3>1, RefillStep DEF At, KeysOf
      <3>2. CASE v # w
        BY <1>1, <2>3, <3>2 DEF Covered, At, OthersKeep
      <3> QED  BY <3>1, <3>2
    <2>4. (\E v \in Writers : Pending(v)') \/ Settled'
      <3>1. CASE \E v \in Writers : v # w /\ Pending(v)
        BY <1>7, <2>1, <3>1
      <3>2. CASE Pending(w)
        <4>1. local[w].size = Size(mem) /\ local[w].done \subseteq KeysOf(storage)
          BY <2>1, <3>2 DEF Pending, Fills, At
        <4>2. CASE /\ local'[w].pc = "assign" /\ local'[w].size = local[w].size
                   /\ \E k \in KeysOf(mem) \ local[w].done :
                        /\ local'[w].done = local[w].done \cup {k}
                        /\ local'[w].key = k /\ local'[w].value = mem[k]
          BY <1>1, <2>1, <4>1, <4>2 DEF Pending, Fills, At
        <4>3. CASE KeysOf(mem) \subseteq local[w].done /\ local'[w].pc = "open"
          <5>1. Stores(w)'
            BY <4>3 DEF Stores, At
          <5> QED  BY <1>1, <2>1, <2>2, <4>1, <4>3, <5>1 DEF Settled
        <4> QED  BY <1>8, <4>1, <4>2, <4>3, RefillStep
      <3>3. CASE Settled
        BY <1>1, <2>1, <3>3 DEF Settled, Stores, At, OthersKeep
      <3> QED  BY <1>1, <3>1, <3>2, <3>3 DEF Covered
    <2> QED  BY <1>1, <1>2, <2>1, <2>2, <2>3, <2>4 DEF Covered
  <1>9. CASE Assign(w)
    <2> DEFINE k == local[w].key
    <2>1. /\ At(w, "assign") /\ local'[w].pc = "refill" /\ local'[w].size = local[w].size
          /\ local'[w].done = local[w].done /\ file' = file
      BY <1>9, AssignStep
    <2>2. k \in KeysOf(mem) /\ local[w].value # None
      BY <1>1, <2>1 DEF Covered
    <2>3. KeysOf(storage') = KeysOf(storage) \cup {k}
      <3>1. k \in Keys /\ storage' = [storage EXCEPT ![k] = local[w].value]
        BY <1>9, <2>2, AssignStep DEF KeysOf
      <3> HIDE DEF k
      <3> QED  BY <2>2, <3>1 DEF KeysOf, TypeOK, Contents
    <2> HIDE DEF k
    <2>4. KeysOf(storage') \subseteq KeysOf(mem) /\ PrunedGone'
      BY <1>1, <1>3, <1>5, <2>1, <2>2, <2>3 DEF PrunedGone, OthersKeep, At, Writers
    <2>5. (\E v \in Writers : Pending(v)') \/ Settled'
      <3>1. ASSUME NEW v \in Writers, v # w, Pending(v)  PROVE Pending(v)'
        BY <1>1, <2>3, <3>1 DEF Pending, Fills, At, OthersKeep
      <3>2. CASE Pending(w)
        <4>1. local[w].size = Size(mem) /\ local[w].done \ {k} \subseteq KeysOf(storage)
          BY <2>1, <3>2 DEF Pending, Fills, At, k
        <4> QED  BY <1>1, <2>1, <2>3, <4>1 DEF Pending, Fills, At
      <3>3. CASE Settled
        <4>1. KeysOf(storage') = KeysOf(storage)
          BY <2>2, <2>3, <3>3 DEF Settled
        <4>2. Size(storage') = Size(storage)
          BY <4>1 DEF Size
        <4> QED  BY <1>1, <2>1, <3>3, <4>1, <4>2 DEF Settled, Stores, At, OthersKeep, Loaded
      <3> QED  BY <1>1, <3>1, <3>2, <3>3 DEF Covered
    <2>6. ASSUME NEW v \in Writers, At(v, "assign")'
          PROVE  local'[v].key \in KeysOf(mem) /\ local'[v].value # None
      BY <1>1, <2>1, <2>6 DEF Covered, At, OthersKeep
    <2> QED  BY <1>1, <1>2, <2>4, <2>5, <2>6 DEF Covered
  <1>10. CASE Open(w) \/ Dump(w)
    <2>1. /\ UNCHANGED storage /\ local'[w].pc \in {"dump", "idle", "dead"} /\ ~Pending(w)
          /\ local[w].pc \in {"open", "dump"}
      BY <1>10, OpenStep, DumpStep DEF Pending, Fills, At
    <2>2. KeysOf(storage) \subseteq KeysOf(mem) /\ PrunedGone'
      BY <1>1, <1>3, <1>5, <2>1 DEF PrunedGone, OthersKeep, At, Writers
    <2>3. ASSUME NEW v \in Writers, At(v, "assign")'
          PROVE  local'[v].key \in KeysOf(mem) /\ local'[v].value # None
      BY <1>1, <2>1, <2>3 DEF Covered, At, OthersKeep
    <2>4. (\E v \in Writers : Pending(v)') \/ Settled'
      <3>1. CASE \E v \in Writers : Pending(v)
        BY <1>7, <2>1, <3>1
      <3>2. CASE Settled /\ Open(w)
        <4>1. Stores(w)'
          BY <2>1, <3>2, OpenStep DEF Stores, At
        <4> QED  BY <1>1, <2>1, <3>2, <4>1 DEF Settled
      <3>3. CASE Settled /\ Dump(w)
        <4>1. At(w, "dump") /\ \A v \in Writers : ~At(v, "dump")'
          BY <1>1, <3>3, DumpStep DEF OneDumps, At, OthersKeep
        <4>2. CASE file' = storage
          <5>1. storage # Torn
            BY StoreAssumption DEF TypeOK, Contents
          <5>2. KeysOf(Loaded(file')) = KeysOf(mem)
            BY <3>3, <4>2, <5>1 DEF Settled, Loaded
          <5> QED  BY <1>1, <2>1, <3>3, <4>1, <5>2 DEF Settled
        <4>3. CASE Size(storage) # local[w].size
          <5>1. PICK v \in Writers : Stores(v)
            BY <3>3, <4>1 DEF Settled
          <5>2. v # w /\ At(v, "open")
            BY <4>1, <4>3, <5>1 DEF Stores, OneDumps, At
          <5>3. Stores(v)'
            BY <1>1, <5>2 DEF Stores, At, OthersKeep
          <5> QED  BY <1>1, <2>1, <3>3, <5>3 DEF Settled
        <4> QED  BY <3>3, <4>2, <4>3, DumpStep
      <3> QED  BY <1>1, <1>10, <3>1, <3>2, <3>3 DEF Covered
    <2> QED  BY <1>1, <1>2, <2>1, <2>2, <2>3, <2>4 DEF Covered
  <1>11. CASE Pop(w)
    <2>1. /\ At(w, "pop") /\ KeysOf(storage') \subseteq KeysOf(storage)
          /\ \/ /\ local'[w].pc = "iterate" /\ local[w].left = {}
             \/ /\ local'[w].pc = "pop"
                /\ \E k : /\ local'[w].left = local[w].left \ {k}
                          /\ KeysOf(storage') = KeysOf(storage) \ {k}
      BY <1>1, <1>11, PopStep
    <2>2. PrunedGone'
      <3>1. CASE w = "tick"
        BY <1>1, <2>1, <3>1 DEF Covered, PrunedGone, At
      <3>2. CASE w # "tick"
        <4>1. local'["tick"] = local["tick"]
          BY <1>1, <3>2 DEF OthersKeep, Writers
        <4> QED  BY <1>1, <2>1, <4>1 DEF Covered, PrunedGone, At
      <3> QED  BY <3>1, <3>2
    <2>3. \A v \in Writers : At(v, "assign")' => v # w
      BY <2>1 DEF At
    <2>4. Pending(w)'
      BY <2>1 DEF Pending, At
    <2> QED  BY <1>1, <1>2, <2>2, <2>3, <2>4 DEF Covered, OthersKeep, At
  <1> QED  BY <1>4, <1>6, <1>8, <1>9, <1>10, <1>11 DEF Persist

LEMMA CrashKeepsCovered == ASSUME TypeOK, Crash  PROVE Covered'
  <1>1. \A w \in Writers : local'[w].pc = "idle"
    BY CrashStep DEF Idle
  <1>2. mem' = storage' /\ Loaded(file') = mem'
    BY CrashStep
  <1> QED  BY <1>1, <1>2 DEF Covered, PrunesAlone, PrunedGone, AtWork, Resting, At, Settled, Writers

(***************************************************************************)
(* Changes that overlap, with one emptying what the other has filled,      *)
(* storing it half full or raising half way, leave no notification out of  *)
(* the file once all is quiet, for any number of workers, as long as no    *)
(* prune is among them and no clear fails on a key another has popped.     *)
(***************************************************************************)
THEOREM OverlapsAreMadeGood == Spec => []OverlapsLoseNothing
  <1>1. TypeOK /\ OneDumps /\ Covered /\ [Next]_vars => Covered'
    <2>1. CASE UNCHANGED vars
      BY <2>1 DEF vars, Covered, PrunesAlone, PrunedGone, AtWork, Resting, At, Pending, Fills,
                  Settled, Stores, Loaded
    <2> QED  BY <2>1, ChangeKeepsCovered, PersistKeepsCovered, CrashKeepsCovered DEF Next
  <1>2. Covered => OverlapsLoseNothing
    <2> SUFFICES ASSUME Covered, ~cut, Quiet  PROVE KeysOf(Loaded(file)) = KeysOf(mem)
      BY DEF OverlapsLoseNothing
    <2>1. \A w \in Writers : ~Pending(w) /\ ~Stores(w)
      BY DEF Quiet, Resting, Pending, Fills, Stores, At
    <2> QED  BY <2>1 DEF Covered, Settled
  <1> QED  BY InitType, TypeKept, InitOverlaps, OneDumpsKept, <1>1, <1>2, PTL DEF Spec
================================================================================
