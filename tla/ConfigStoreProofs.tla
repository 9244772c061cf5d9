------------------------- MODULE ConfigStoreProofs -------------------------
(***************************************************************************)
(* What holds of ConfigStore for any number of handlers, remotes, channels *)
(* and requests: saves of routes exclude each other, the masks are those   *)
(* of the list, what is heard is what the list wires, restarts keep the    *)
(* labels, and an apply moves the routes of a remote as a whole.           *)
(***************************************************************************)
EXTENDS ConfigStore, FiniteSetTheorems, SequenceTheorems, WellOrder

-----------------------------------------------------------------------------
(* Handlers                                                                *)

PCs   == {"idle", "masks", "load", "empty", "write"}
Parts == {"none", "routes", "labels", "setup"}

\* A handler's record has its fields; what they hold is left open.
GoodHandler(h) ==
  /\ h = [part |-> h.part, pc |-> h.pc, slot |-> h.slot, routes |-> h.routes,
          labels |-> h.labels, setup |-> h.setup]
  /\ h.pc \in PCs /\ h.part \in Parts
  /\ (h.pc = "idle") <=> (h.part = "none")
  /\ h.pc = "masks" => h.part = "routes"
  /\ h.slot \in 0..(MaxChannels + 2)

HandlerInv ==
  /\ handler = [t \in Threads |-> handler[t]]
  /\ \A t \in Threads : GoodHandler(handler[t])

\* One handler acts: what its record becomes.
Becomes(t, h) ==
  /\ GoodHandler(h)
  /\ handler' = [u \in Threads |-> IF u = t THEN h ELSE handler[u]]

LEMMA IdleGood == GoodHandler(Idle)
  BY RoutingAssumption DEF GoodHandler, Idle, Asked, PCs, Parts

LEMMA OneHandler ==
  ASSUME HandlerInv, NEW t \in Threads, NEW h, Becomes(t, h) PROVE HandlerInv'
  BY DEF HandlerInv, Becomes, GoodHandler

LEMMA Except ==
  ASSUME HandlerInv, NEW t \in Threads, NEW h, GoodHandler(h),
         handler' = [handler EXCEPT ![t] = h]
  PROVE  Becomes(t, h)
<1>1. handler = [u \in Threads |-> handler[u]]
  BY DEF HandlerInv
<1>2. [handler EXCEPT ![t] = h] = [u \in Threads |-> IF u = t THEN h ELSE handler[u]]
  BY <1>1
<1> QED
  BY <1>2 DEF Becomes

LEMMA Records ==
  ASSUME HandlerInv, NEW t \in Threads
  PROVE  /\ \A list : Patch(t, list) => Becomes(t, Asked("routes", "masks", list, None, None))
         /\ \A list : local_labels_post_handler(t, list) =>
                        Becomes(t, Asked("labels", "load", None, labels', None))
         /\ \A rs, n : setup_apply_handler(t, rs, n) =>
                         Becomes(t, Asked("setup", "load", None, None,
                                          [remotes |-> rs, channels |-> n]))
         /\ StoreMask(t) => Becomes(t, [handler[t] EXCEPT !.slot = handler[t].slot + 1])
         /\ ReplaceList(t) => Becomes(t, [handler[t] EXCEPT !.pc = "load"])
         /\ Load(t) => Becomes(t, [handler[t] EXCEPT !.pc = "empty"])
         /\ EmptyFile(t) => Becomes(t, [handler[t] EXCEPT !.pc = "write"])
         /\ WriteFile(t) \/ SaveFails(t) => Becomes(t, Idle)
<1>1. ASSUME NEW list, Patch(t, list)
      PROVE  Becomes(t, Asked("routes", "masks", list, None, None))
  <2>1. GoodHandler(Asked("routes", "masks", list, None, None))
    BY RoutingAssumption DEF GoodHandler, Asked, PCs, Parts
  <2> QED BY <1>1, <2>1, Except DEF Patch
<1>2. ASSUME NEW list, local_labels_post_handler(t, list)
      PROVE  Becomes(t, Asked("labels", "load", None, labels', None))
  <2>1. GoodHandler(Asked("labels", "load", None, labels', None))
    BY RoutingAssumption DEF GoodHandler, Asked, PCs, Parts
  <2> QED BY <1>2, <2>1, Except DEF local_labels_post_handler
<1>3. ASSUME NEW rs, NEW n, setup_apply_handler(t, rs, n)
      PROVE  Becomes(t, Asked("setup", "load", None, None, [remotes |-> rs, channels |-> n]))
  <2>1. GoodHandler(Asked("setup", "load", None, None, [remotes |-> rs, channels |-> n]))
    BY RoutingAssumption DEF GoodHandler, Asked, PCs, Parts
  <2> QED BY <1>3, <2>1, Except DEF setup_apply_handler
<1>4. GoodHandler(handler[t])
  BY DEF HandlerInv
<1>5. ASSUME StoreMask(t)
      PROVE  Becomes(t, [handler[t] EXCEPT !.slot = handler[t].slot + 1])
  <2>1. GoodHandler([handler[t] EXCEPT !.slot = handler[t].slot + 1])
    BY <1>4, <1>5, RoutingAssumption DEF StoreMask, MaskSlots, GoodHandler
  <2> QED BY <1>5, <2>1, Except DEF StoreMask
<1>6. ASSUME ReplaceList(t) PROVE Becomes(t, [handler[t] EXCEPT !.pc = "load"])
  <2>1. GoodHandler([handler[t] EXCEPT !.pc = "load"])
    BY <1>4, <1>6 DEF ReplaceList, GoodHandler, PCs
  <2> QED BY <1>6, <2>1, Except DEF ReplaceList
<1>7. ASSUME Load(t) PROVE Becomes(t, [handler[t] EXCEPT !.pc = "empty"])
  <2>1. GoodHandler([handler[t] EXCEPT !.pc = "empty"])
    BY <1>4, <1>7 DEF Load, GoodHandler, PCs
  <2> QED BY <1>7, <2>1, Except DEF Load
<1>8. ASSUME EmptyFile(t) PROVE Becomes(t, [handler[t] EXCEPT !.pc = "write"])
  <2>1. GoodHandler([handler[t] EXCEPT !.pc = "write"])
    BY <1>4, <1>8 DEF EmptyFile, GoodHandler, PCs
  <2> QED BY <1>8, <2>1, Except DEF EmptyFile
<1>9. ASSUME WriteFile(t) \/ SaveFails(t) PROVE Becomes(t, Idle)
  BY <1>9, IdleGood, Except DEF WriteFile, SaveFails, SaveDone
<1> QED
  BY <1>1, <1>2, <1>3, <1>5, <1>6, <1>7, <1>8, <1>9

LEMMA InitHandler == Init => HandlerInv
  BY IdleGood DEF Init, HandlerInv

LEMMA BootHandler == ASSUME NEW args, Boot(args) PROVE HandlerInv'
  BY IdleGood DEF Boot, HandlerInv, GoodHandler

LEMMA NextHandler == HandlerInv /\ [Next]_vars => HandlerInv'
<1> SUFFICES ASSUME HandlerInv, [Next]_vars PROVE HandlerInv'
    OBVIOUS
<1>1. ASSUME NEW t \in Threads, Handle(t) PROVE HandlerInv'
  <2>1. CASE preset_save_handler(t)
    BY <2>1 DEF preset_save_handler, HandlerInv, GoodHandler
  <2>2. CASE ~preset_save_handler(t)
    <3>1. \E h : Becomes(t, h)
      BY <1>1, <2>2, Records DEF Handle, routes_post_handler, preset_recall_handler
    <3> QED BY <3>1, OneHandler
  <2> QED BY <2>1, <2>2
<1>2. CASE Exec
    BY <1>2, BootHandler DEF Exec
<1>3. CASE Restart
    BY <1>3, BootHandler DEF Restart
<1>4. CASE UNCHANGED vars
    BY <1>4 DEF vars, HandlerInv, GoodHandler
<1> QED
    BY <1>1, <1>2, <1>3, <1>4 DEF Next

-----------------------------------------------------------------------------
(* Saves of routes                                                         *)

SavesRoutes(h) == h.pc \in {"load", "empty", "write"} /\ h.part = "routes"

LockInv ==
  /\ lock \in Threads \cup {None}
  /\ \A t \in Threads : lock = t <=> SavesRoutes(handler[t])

LEMMA Frame ==
  ASSUME NEW t \in Threads, NEW h, Becomes(t, h)
  PROVE  handler'[t] = h /\ \A u \in Threads \ {t} : handler'[u] = handler[u]
  BY DEF Becomes

LEMMA BootLock == ASSUME NEW args, Boot(args) PROVE LockInv'
  BY ConfigStoreAssumption DEF Boot, LockInv, SavesRoutes, Idle, Asked

LEMMA NextLock == HandlerInv /\ LockInv /\ [Next]_vars => LockInv'
<1> SUFFICES ASSUME HandlerInv, LockInv, [Next]_vars PROVE LockInv'
    OBVIOUS
<1>1. ASSUME NEW t \in Threads, Handle(t) PROVE LockInv'
  <2>0. GoodHandler(handler[t])
    BY DEF HandlerInv
  <2>1. ASSUME NEW h, Becomes(t, h), lock' = lock, SavesRoutes(h) <=> SavesRoutes(handler[t])
        PROVE  LockInv'
    BY <2>1, Frame DEF LockInv
  <2>2. ASSUME handler[t].pc = "idle" PROVE ~SavesRoutes(handler[t])
    BY <2>2 DEF SavesRoutes
  <2>3. ASSUME NEW list, Request(t), Patch(t, list), lock' = lock PROVE LockInv'
    BY <2>1, <2>2, <2>3, Records DEF SavesRoutes, Asked, Request
  <2>4. CASE preset_save_handler(t)
    BY <2>4 DEF preset_save_handler, LockInv, SavesRoutes
  <2>5. ASSUME NEW list, local_labels_post_handler(t, list) PROVE LockInv'
    BY <2>1, <2>2, <2>5, Records DEF local_labels_post_handler, SavesRoutes, Asked, Request
  <2>6. ASSUME NEW rs, NEW n, setup_apply_handler(t, rs, n) PROVE LockInv'
    BY <2>1, <2>2, <2>6, Records DEF setup_apply_handler, SavesRoutes, Asked, Request
  <2>7. CASE StoreMask(t)
    BY <2>0, <2>1, <2>7, Records DEF StoreMask, SavesRoutes, HandlerInv, GoodHandler
  <2>8. CASE ReplaceList(t)
    <3>1. SavesRoutes([handler[t] EXCEPT !.pc = "load"])
      BY <2>8 DEF ReplaceList, SavesRoutes, HandlerInv, GoodHandler
    <3>2. \A u \in Threads : ~SavesRoutes(handler[u])
      BY <2>8, ConfigStoreAssumption DEF ReplaceList, LockInv
    <3>3. lock' = t /\ Becomes(t, [handler[t] EXCEPT !.pc = "load"])
      BY <2>8, Records DEF ReplaceList
    <3> QED BY <3>1, <3>2, <3>3, Frame DEF LockInv
  <2>9. CASE Load(t)
    BY <2>1, <2>9, Records DEF Load, SavesRoutes, HandlerInv, GoodHandler, memory
  <2>10. CASE EmptyFile(t)
    BY <2>1, <2>10, Records DEF EmptyFile, SavesRoutes, HandlerInv, GoodHandler, memory
  <2>11. CASE WriteFile(t) \/ SaveFails(t)
    <3>1. ~SavesRoutes(Idle)
      BY DEF SavesRoutes, Idle, Asked
    <3>2. Becomes(t, Idle) /\ lock' = IF lock = t THEN None ELSE lock
      BY <2>11, Records DEF WriteFile, SaveFails, SaveDone
    <3> QED BY <3>1, <3>2, Frame, ConfigStoreAssumption DEF LockInv
  <2> QED
    BY <1>1, <2>3, <2>4, <2>5, <2>6, <2>7, <2>8, <2>9, <2>10, <2>11
    DEF Handle, routes_post_handler, preset_recall_handler
<1>2. CASE Exec
    BY <1>2, BootLock DEF Exec
<1>3. CASE Restart
    BY <1>3, BootLock DEF Restart
<1>4. CASE UNCHANGED vars
    BY <1>4 DEF vars, LockInv, SavesRoutes
<1> QED
    BY <1>1, <1>2, <1>3, <1>4 DEF Next

LEMMA InitLock == Init => LockInv
  BY ConfigStoreAssumption DEF Init, LockInv, SavesRoutes, Idle, Asked

LEMMA LockAlways == Spec => [](HandlerInv /\ LockInv)
<1> QED
  BY InitLock, InitHandler, NextHandler, NextLock, PTL DEF Spec

\* Of two handlers that save routes, the second waits for the lock of the list
\* from before it loads the file until the first has written it: no save of
\* routes is lost to another one (web.rs:175-178, 232-234).
RouteSavesAlone ==
  \A t, u \in Threads : SavesRoutes(handler[t]) /\ SavesRoutes(handler[u]) => t = u

THEOREM RouteSavesExclude == Spec => []RouteSavesAlone
<1>1. LockInv => RouteSavesAlone
  BY DEF LockInv, RouteSavesAlone
<1> QED
  BY <1>1, LockAlways, PTL

-----------------------------------------------------------------------------
(* Masks and list                                                          *)

\* As long as no two handlers stored masks at the same time: there is one at
\* most that is storing them, the masks before its slot are those of its
\* request, and the others those of the list.
PatchInv ==
  /\ masks = [slot \in MaskSlots |-> masks[slot]]
  /\ ~mixed =>
       /\ \A t, u \in Patching : t = u
       /\ \A t \in Patching, slot \in MaskSlots :
            slot < handler[t].slot => masks[slot] = Mask(handler[t].routes, slot, engine.channels)
       /\ \A slot \in MaskSlots :
            (\A t \in Patching : handler[t].slot <= slot) =>
              masks[slot] = Mask(routes, slot, engine.channels)

LEMMA InitMasks == Init => PatchInv
<1> SUFFICES ASSUME Init PROVE PatchInv
  OBVIOUS
<1>1. Patching = {}
  BY DEF Init, Patching, Idle, Asked
<1>2. \A slot \in MaskSlots : Mask({}, slot, engine.channels) = {}
  BY DEF Mask, OutputMask, TxMask
<1> QED
  BY <1>1, <1>2 DEF Init, PatchInv

LEMMA BootMasks == ASSUME NEW args, Boot(args) PROVE PatchInv'
<1>1. Patching' = {}
  BY DEF Boot, Patching, Idle, Asked
<1> QED
  BY <1>1 DEF Boot, PatchInv

LEMMA NextMasks == HandlerInv /\ PatchInv /\ [Next]_vars => PatchInv'
<1> SUFFICES ASSUME HandlerInv, PatchInv, [Next]_vars PROVE PatchInv'
    OBVIOUS
<1>1. ASSUME NEW t \in Threads, Handle(t) PROVE PatchInv'
  <2>0. GoodHandler(handler[t])
    BY DEF HandlerInv
  <2>1. ASSUME NEW h, Becomes(t, h), h.pc # "masks", t \notin Patching,
               UNCHANGED <<masks, routes, engine, mixed>>
        PROVE  PatchInv'
    <3>1. Patching' = Patching /\ \A u \in Patching : handler'[u] = handler[u]
      BY <2>1, Frame DEF Patching
    <3> QED BY <2>1, <3>1 DEF PatchInv
  <2>2. ASSUME NEW list, Patch(t, list), Request(t), UNCHANGED <<masks, routes, engine>>
        PROVE  PatchInv'
    <3>1. Becomes(t, Asked("routes", "masks", list, None, None))
      BY <2>2, Records
    <3>2. ASSUME ~mixed' PROVE ~mixed /\ Patching = {}
      BY <2>2, <3>2 DEF Patch
    <3>3. ASSUME ~mixed' PROVE Patching' = {t} /\ handler'[t].slot = 0
      BY <3>1, <3>2, <3>3, Frame DEF Patching, Asked
    <3> QED BY <2>2, <3>2, <3>3, RoutingAssumption DEF PatchInv, MaskSlots
  <2>3. CASE preset_save_handler(t)
    BY <2>3 DEF preset_save_handler, PatchInv, Patching
  <2>4. ASSUME NEW list, local_labels_post_handler(t, list) PROVE PatchInv'
    BY <2>1, <2>4, Records DEF local_labels_post_handler, Request, Patching, Asked
  <2>5. ASSUME NEW rs, NEW n, setup_apply_handler(t, rs, n) PROVE PatchInv'
    BY <2>1, <2>5, Records DEF setup_apply_handler, Request, Patching, Asked, memory
  <2>6. CASE StoreMask(t)
    <3> DEFINE at == handler[t].slot
    <3>1. at \in MaskSlots /\ t \in Patching /\ UNCHANGED <<routes, engine, mixed>>
      BY <2>6 DEF StoreMask, Patching
    <3>2. masks' = [masks EXCEPT ![at] = Mask(handler[t].routes, at, engine.channels)]
      BY <2>6 DEF StoreMask, MaskStored
    <3>3. /\ handler'[t] = [handler[t] EXCEPT !.slot = at + 1]
          /\ \A u \in Threads \ {t} : handler'[u] = handler[u]
      BY <2>6, Records, Frame
    <3>4. handler'[t].pc = "masks" /\ handler'[t].routes = handler[t].routes /\ handler'[t].slot = at + 1
      BY <2>0, <3>3, <2>6 DEF GoodHandler, StoreMask
    <3>5. Patching' = Patching
      BY <3>1, <3>3, <3>4 DEF Patching
    <3>6. ASSUME ~mixed
          PROVE  /\ Patching = {t}
                 /\ \A slot \in MaskSlots : slot < at + 1 =>
                      masks'[slot] = Mask(handler[t].routes, slot, engine.channels)
                 /\ \A slot \in MaskSlots : at + 1 <= slot =>
                      masks'[slot] = Mask(routes, slot, engine.channels)
      <4>1. Patching = {t}
        BY <3>1, <3>6 DEF PatchInv
      <4>2. \A slot \in MaskSlots : slot < at =>
              masks[slot] = Mask(handler[t].routes, slot, engine.channels)
        BY <3>1, <3>6 DEF PatchInv
      <4>3. \A slot \in MaskSlots : at <= slot => masks[slot] = Mask(routes, slot, engine.channels)
        BY <3>6, <4>1 DEF PatchInv
      <4> HIDE DEF at
      <4> QED BY <3>1, <3>2, <4>1, <4>2, <4>3, RoutingAssumption DEF PatchInv, MaskSlots
    <3>7. masks' = [slot \in MaskSlots |-> masks'[slot]]
      BY <3>2 DEF PatchInv
    <3> HIDE DEF at
    <3> QED BY <3>1, <3>4, <3>5, <3>6, <3>7 DEF PatchInv
  <2>7. CASE ReplaceList(t)
    <3>1. handler'[t] = [handler[t] EXCEPT !.pc = "load"]
          /\ \A u \in Threads \ {t} : handler'[u] = handler[u]
      BY <2>7, Records, Frame
    <3>2. t \in Patching /\ handler[t].slot = MaxChannels + 2 /\ UNCHANGED <<masks, engine, mixed>>
      BY <2>0, <2>7, RoutingAssumption DEF ReplaceList, GoodHandler, MaskSlots, Patching
    <3>3. routes' = handler[t].routes
      BY <2>7 DEF ReplaceList
    <3>4. ASSUME ~mixed PROVE Patching' = {}
      <4>1. Patching = {t}
        BY <3>2, <3>4 DEF PatchInv
      <4>2. handler'[t].pc = "load"
        BY <2>0, <3>1 DEF GoodHandler
      <4> QED BY <3>1, <4>1, <4>2 DEF Patching
    <3>5. ASSUME ~mixed, NEW slot \in MaskSlots
          PROVE  masks[slot] = Mask(handler[t].routes, slot, engine.channels)
      BY <3>2, <3>5, RoutingAssumption DEF PatchInv, MaskSlots
    <3> QED BY <3>2, <3>3, <3>4, <3>5 DEF PatchInv
  <2>8. CASE Load(t)
    BY <2>0, <2>1, <2>8, Records DEF Load, Patching, GoodHandler, memory
  <2>9. CASE EmptyFile(t)
    BY <2>0, <2>1, <2>9, Records DEF EmptyFile, Patching, GoodHandler, memory
  <2>10. CASE WriteFile(t) \/ SaveFails(t)
    BY <2>1, <2>10, Records DEF WriteFile, SaveFails, SaveDone, Patching, Idle, Asked, memory
  <2> QED
    BY <1>1, <2>2, <2>3, <2>4, <2>5, <2>6, <2>7, <2>8, <2>9, <2>10
    DEF Handle, routes_post_handler, preset_recall_handler, memory
<1>2. CASE Exec
    BY <1>2, BootMasks DEF Exec
<1>3. CASE Restart
    BY <1>3, BootMasks DEF Restart
<1>4. CASE UNCHANGED vars
    BY <1>4 DEF vars, PatchInv, Patching
<1> QED
    BY <1>1, <1>2, <1>3, <1>4 DEF Next

\* Whatever handlers run, the masks are those of the list when none is between
\* the two, unless two handlers stored masks at the same time.
THEOREM MasksCorrect == Spec => []MasksMatchList
<1>1. PatchInv => MasksMatchList
  BY DEF PatchInv, MasksMatchList
<1> QED
  BY <1>1, InitHandler, NextHandler, InitMasks, NextMasks, PTL DEF Spec

-----------------------------------------------------------------------------
(* Migrations, one move after the other                                    *)

LEMMA MaxIsIn ==
  ASSUME NEW n \in Nat, NEW s, s \subseteq 1..n, s # {}
  PROVE  Max(s) \in s /\ \A i \in s : i <= Max(s)
<1>1. PICK m \in s : \A i \in s : i <= m
  <2>1. s \subseteq 0..n
    OBVIOUS
  <2> QED BY <2>1, GreatestNumber
<1>2. \A i \in s : m >= i
  BY <1>1
<1> QED
  BY <1>2 DEF Max

Followed(list, order) == FoldLeft(Renumber, list, order)

\* The lists a migration goes through, from the first to its result.
Stages(lists, list, n, order) ==
  /\ lists[0] = list /\ lists[n] = Followed(list, order)
  /\ \A k \in 1..n : lists[k] = Renumber(lists[k - 1], order[k])

LEMMA FoldSteps ==
  ASSUME NEW list, NEW n \in Nat, NEW order, DOMAIN order = 1..n
  PROVE  \E lists : Stages(lists, list, n, order)
<1> DEFINE Value(f, s) == IF s = {} THEN list ELSE Renumber(f[s \ {Max(s)}], order[Max(s)])
           Is(f, k)    == f = [s \in SUBSET (1..k) |-> Value(f, s)]
           Bad         == {k \in Nat : \A f : ~Is(f, k)}
<1>1. ASSUME Bad # {} PROVE FALSE
  <2>1. PICK k \in Bad : \A j \in Bad : k <= j
    BY <1>1, LeastNumber
  <2>2. CASE k = 0
    <3> DEFINE f == [s \in SUBSET (1..0) |-> list]
    <3>1. \A s \in SUBSET (1..0) : s = {}
      OBVIOUS
    <3>2. Is(f, 0)
      BY <3>1
    <3> QED BY <2>2, <3>2
  <2>3. CASE k # 0
    <3>1. k - 1 \in Nat /\ k \in Nat /\ k - 1 \notin Bad
      <4>1. k \in Nat
        OBVIOUS
      <4> HIDE DEF Bad
      <4> QED BY <2>1, <2>3, <4>1
    <3>2. PICK g : Is(g, k - 1)
      <4> HIDE DEF Is
      <4> QED BY <3>1, Zenon
    <3> DEFINE f == [s \in SUBSET (1..k) |-> Value(g, s)]
    <3>3. ASSUME NEW s \in SUBSET (1..k) PROVE Value(f, s) = Value(g, s)
      <4>1. CASE s = {}
        BY <4>1
      <4>2. CASE s # {}
        <5> DEFINE u == s \ {Max(s)}
        <5>1. u \in SUBSET (1..(k - 1))
          <6>1. s \subseteq 1..k /\ \A i \in s : i \in Nat /\ 1 <= i /\ i <= k
            OBVIOUS
          <6>2. Max(s) \in s /\ \A i \in s : i <= Max(s)
            BY <3>1, <4>2, <6>1, MaxIsIn
          <6>3. \A i \in u : i \in s /\ i # Max(s)
            OBVIOUS
          <6>4. Max(s) \in Nat /\ Max(s) <= k
            BY <6>1, <6>2
          <6> HIDE DEF u
          <6>5. ASSUME NEW i \in u PROVE i \in 1..(k - 1)
            <7>1. i \in Nat /\ 1 <= i /\ i <= Max(s) /\ i # Max(s)
              BY <6>1, <6>2, <6>3
            <7> QED BY <3>1, <6>4, <7>1
          <6> QED BY <6>5
        <5>2. u \in SUBSET (1..k)
          OBVIOUS
        <5>3. f[u] = Value(g, u) /\ g[u] = Value(g, u)
          BY <3>2, <5>1, <5>2
        <5> HIDE DEF f, u
        <5>4. f[u] = g[u]
          BY <5>3
        <5> QED BY <4>2, <5>4 DEF u
      <4> QED BY <4>1, <4>2
    <3>4. Is(f, k)
      BY <3>3
    <3> QED BY <3>4
  <2> QED BY <2>2, <2>3
<1> DEFINE iter == CHOOSE f : f = [s \in SUBSET (DOMAIN order) |-> Value(f, s)]
<1>2. Followed(list, order) = iter[DOMAIN order]
  BY DEF Followed, FoldLeft, MapThenFoldSet
<1>3. Is(iter, n)
  <2>1. n \notin Bad
    BY <1>1
  <2>2. PICK f : Is(f, n)
    BY <2>1
  <2>3. f = [s \in SUBSET (DOMAIN order) |-> Value(f, s)]
    BY <2>2
  <2> HIDE DEF Value
  <2>4. iter = [s \in SUBSET (DOMAIN order) |-> Value(iter, s)]
    BY <2>3
  <2> QED BY <2>4
<1> HIDE DEF iter
<1> DEFINE lists == [k \in 0..n |-> iter[1..k]]
<1>4. lists[0] = list
  <2>1. iter[1..0] = Value(iter, 1..0)
    BY <1>3
  <2> QED BY <2>1
<1>5. ASSUME NEW k \in 1..n PROVE lists[k] = Renumber(lists[k - 1], order[k])
  <2>1. 1..k \in SUBSET (1..n) /\ k \in Nat
    OBVIOUS
  <2>2. Max(1..k) \in 1..k /\ k <= Max(1..k)
    <3>1. 1..k # {} /\ k \in 1..k
      OBVIOUS
    <3> QED BY <2>1, <3>1, MaxIsIn
  <2>3. Max(1..k) = k
    BY <2>2
  <2>4. (1..k) \ {k} = 1..(k - 1)
    OBVIOUS
  <2>5. iter[1..k] = Renumber(iter[1..(k - 1)], order[k])
    <3>1. iter[1..k] = Value(iter, 1..k)
      BY <1>3, <2>1
    <3>2. 1..k # {}
      OBVIOUS
    <3> QED BY <2>3, <2>4, <3>1, <3>2
  <2> QED BY <2>5
<1>6. lists[n] = iter[DOMAIN order]
  OBVIOUS
<1> HIDE DEF lists
<1>7. Stages(lists, list, n, order)
  BY <1>2, <1>4, <1>5, <1>6 DEF Stages
<1> QED
  BY <1>7

LEMMA RangeFinite ==
  ASSUME NEW remotes, IsFiniteSet(DOMAIN remotes), remotes = [i \in DOMAIN remotes |-> remotes[i]]
  PROVE  IsFiniteSet({remotes[i] : i \in DOMAIN remotes})
<1> DEFINE S == DOMAIN remotes
           T == {remotes[i] : i \in S}
           f == [i \in S |-> remotes[i]]
<1>1. f \in Surjection(S, T)
  BY DEF Surjection
<1> QED
  BY <1>1, FS_Surjection

LEMMA ListDomain ==
  ASSUME NEW S, NEW list \in Seq(S)
  PROVE  /\ Len(list) \in Nat /\ DOMAIN list = 1..Len(list) /\ IsFiniteSet(DOMAIN list)
         /\ \A i \in DOMAIN list : list[i] \in S
<1>1. Len(list) \in Nat /\ DOMAIN list = 1..Len(list) /\ \A i \in DOMAIN list : list[i] \in S
  BY LenProperties, ElementOfSeq
<1> QED
  BY <1>1, FS_Interval

LEMMA MovesFinite ==
  ASSUME NEW old \in Seq(Remote), NEW new \in Seq(Remote)
  PROVE  IsFiniteSet(Moves(old, new))
<1> DEFINE Pairs == {p \in (DOMAIN old) \X (DOMAIN new) :
                       old[p[1]].name = new[p[2]].name /\ old[p[1]].index # new[p[2]].index}
           f     == [p \in Pairs |-> [from |-> old[p[1]].index, to |-> new[p[2]].index]]
<1>1. IsFiniteSet((DOMAIN old) \X (DOMAIN new))
  BY ListDomain, FS_Product
<1>2. IsFiniteSet(Pairs)
  BY <1>1, FS_Subset
<1>3. Moves(old, new) = {f[p] : p \in Pairs}
  BY DEF Moves
<1>4. f \in Surjection(Pairs, Moves(old, new))
  BY <1>3 DEF Surjection
<1> QED
  BY <1>2, <1>4, FS_Surjection

LEMMA MoveNumbers ==
  ASSUME NEW old \in Seq(Remote), NEW new \in Seq(Remote), NEW m \in Moves(old, new)
  PROVE  /\ m.from \in Nat /\ m.to \in Nat
         /\ \E i \in DOMAIN old, j \in DOMAIN new :
              /\ old[i].name = new[j].name /\ old[i].index # new[j].index
              /\ m.from = old[i].index /\ m.to = new[j].index
<1>1. PICK p \in (DOMAIN old) \X (DOMAIN new) :
        /\ old[p[1]].name = new[p[2]].name /\ old[p[1]].index # new[p[2]].index
        /\ m = [from |-> old[p[1]].index, to |-> new[p[2]].index]
  BY DEF Moves
<1>2. old[p[1]] \in Remote /\ new[p[2]] \in Remote
  BY ListDomain
<1> QED
  BY <1>1, <1>2 DEF Remote

\* An order to make the moves in: each of them, once.
LEMMA OrderOfMoves ==
  ASSUME NEW old \in Seq(Remote), NEW new \in Seq(Remote),
         NEW order \in SetToSeqs(Moves(old, new))
  PROVE  \E n \in Nat : /\ DOMAIN order = 1..n
                        /\ \A i \in 1..n : order[i] \in Moves(old, new)
                        /\ \A i, j \in 1..n : i # j => order[i] # order[j]
                        /\ \A m \in Moves(old, new) : \E i \in 1..n : order[i] = m
<1> DEFINE moves == Moves(old, new)
           n     == Cardinality(moves)
<1>1. IsFiniteSet(moves) /\ n \in Nat
  BY MovesFinite, FS_CardinalityType
<1>2. order \in [1..n -> moves] /\ \A i, j \in 1..n : i # j => order[i] # order[j]
  BY DEF SetToSeqs
<1>3. order \in Injection(1..n, moves)
  BY <1>2 DEF Injection, IsInjective
<1>4. Cardinality(1..n) = n
  BY <1>1, FS_Interval
<1>5. order \in Surjection(1..n, moves)
  BY <1>1, <1>3, <1>4, FS_Injection
<1>6. \A m \in moves : \E i \in 1..n : order[i] = m
  BY <1>5 DEF Surjection
<1> HIDE DEF n, moves
<1>7. /\ DOMAIN order = 1..n
      /\ \A i \in 1..n : order[i] \in moves
  BY <1>2
<1>8. /\ DOMAIN order = 1..n
      /\ \A i \in 1..n : order[i] \in moves
      /\ \A i, j \in 1..n : i # j => order[i] # order[j]
      /\ \A m \in moves : \E i \in 1..n : order[i] = m
  BY <1>2, <1>6, <1>7
<1> QED
  BY <1>1, <1>8 DEF moves

LEMMA RenumberedRoutes ==
  ASSUME NEW list, list \subseteq Route, NEW move, move.to \in Nat
  PROVE  Renumber(list, move) \subseteq Route
<1>1. ASSUME NEW r \in Route PROVE [r EXCEPT !.source.remote = move.to] \in Route
  BY <1>1 DEF Route, Endpoint
<1> QED
  BY <1>1 DEF Renumber

\* A migration leaves routes.
LEMMA MigratedRoutes ==
  ASSUME NEW list, list \subseteq Route, NEW old \in Seq(Remote), NEW new \in Seq(Remote),
         NEW result \in Migrations(list, old, new)
  PROVE  result \subseteq Route
<1>1. PICK order \in SetToSeqs(Moves(old, new)) : result = Followed(list, order)
  BY DEF Migrations, Followed
<1>2. PICK n \in Nat : DOMAIN order = 1..n /\ \A i \in 1..n : order[i] \in Moves(old, new)
  BY OrderOfMoves
<1>3. PICK lists : Stages(lists, list, n, order)
  BY <1>2, FoldSteps
<1> DEFINE Bad == {k \in 0..n : ~(lists[k] \subseteq Route)}
<1>4. ASSUME Bad # {} PROVE FALSE
  <2>1. Bad \subseteq Nat
    OBVIOUS
  <2>2. PICK k \in Bad : \A j \in Bad : k <= j
    BY <1>4, <2>1, LeastNumber
  <2>3. k # 0 /\ k \in 1..n
    BY <1>3 DEF Stages
  <2>4. k - 1 \in 0..n /\ k - 1 \notin Bad
    BY <2>1, <2>2, <2>3
  <2>5. lists[k - 1] \subseteq Route
    BY <2>4
  <2>6. order[k].to \in Nat
    BY <1>2, <2>3, MoveNumbers
  <2>7. lists[k] \subseteq Route
    BY <1>3, <2>3, <2>5, <2>6, RenumberedRoutes DEF Stages
  <2> QED BY <2>2, <2>7
<1>5. lists[n] \subseteq Route
  <2>1. n \in 0..n
    OBVIOUS
  <2> QED BY <1>4, <2>1
<1> QED
  BY <1>1, <1>3, <1>5 DEF Stages

-----------------------------------------------------------------------------
(* Types                                                                   *)

\* What is asked of the remotes of a process, which may have been named.
GoodRemotes(remotes) ==
  /\ IsFiniteSet({remotes[i] : i \in DOMAIN remotes})
  /\ \A i \in DOMAIN remotes : remotes[i].index \in Nat

GoodRequest(h) ==
  /\ h.part = "routes" => h.routes \subseteq Route
  /\ h.part = "labels" => h.labels \in Seq(Labels)
  /\ h.part = "setup"  => h.setup \in Setup

FileInv ==
  /\ file \in {Empty, Torn} \cup Settings
  /\ copy = [t \in Threads |-> copy[t]]
  /\ \A t \in Threads : /\ GoodRequest(handler[t])
                        /\ handler[t].pc \in {"empty", "write"} => copy[t] \in Settings
  /\ rebuilds \subseteq Setup

MemoryInv ==
  /\ GoodRemotes(engine.remotes) /\ engine.channels \in Channels
  /\ \A slot \in MaskSlots : masks[slot] \subseteq Channel
  /\ routes \subseteq Route
  /\ preset = None \/ preset \subseteq Route
  /\ labels \in [1..engine.channels -> Labels]

HistoryInv == requests \in 0..MaxRequests /\ clash \in BOOLEAN /\ mixed \in BOOLEAN

LEMMA ChannelNumber == ASSUME NEW n \in Channels PROVE n \in Nat /\ n \in 1..MaxChannels
<1>1. n \in 1..MaxChannels
  BY ConfigStoreAssumption
<1> QED
  BY <1>1, RoutingAssumption

LEMMA FitType ==
  ASSUME NEW list \in Seq(Labels), NEW n \in Nat
  PROVE  Fit(list, n) \in [1..n -> Labels] /\ Fit(list, n) \in Seq(Labels)
<1>1. Fit(list, n) \in [1..n -> Labels]
  BY ListDomain, ConfigStoreAssumption DEF Fit
<1> QED
  BY <1>1, SeqDef

LEMMA ListedGood == ASSUME NEW remotes \in Seq(Remote) PROVE GoodRemotes(remotes)
<1>1. IsFiniteSet(DOMAIN remotes) /\ \A i \in DOMAIN remotes : remotes[i] \in Remote
  BY ListDomain
<1>2. remotes = [i \in DOMAIN remotes |-> remotes[i]]
  OBVIOUS
<1> QED
  BY <1>1, <1>2, RangeFinite DEF GoodRemotes, Remote

LEMMA NoneGood == GoodRemotes(<<>>)
<1>1. {<<>>[i] : i \in DOMAIN <<>>} = {}
  OBVIOUS
<1> QED
  BY <1>1, FS_EmptySet DEF GoodRemotes

LEMMA OneGood == ASSUME NEW r, r.index \in Nat PROVE GoodRemotes(<<r>>)
<1>1. {<<r>>[i] : i \in DOMAIN <<r>>} = {r}
  OBVIOUS
<1>2. \A i \in DOMAIN <<r>> : <<r>>[i] = r
  OBVIOUS
<1>3. IsFiniteSet({r})
  BY FS_Singleton
<1> QED
  BY <1>1, <1>2, <1>3 DEF GoodRemotes

LEMMA MaskType == ASSUME NEW list, NEW slot, NEW n PROVE Mask(list, slot, n) \subseteq Channel
  BY DEF Mask, OutputMask, TxMask

LEMMA ValidAreRoutes == ASSUME NEW list, NEW n PROVE ValidRoutes(list, n) \subseteq Route
  BY DEF ValidRoutes, route_valid_for_runtime

LEMMA LoadedGood == ASSUME FileInv PROVE load_persisted_state \in Settings
<1>1. DefaultState \in Settings
  BY EmptySeq DEF DefaultState, Settings
<1> QED
  BY <1>1 DEF FileInv, load_persisted_state

LEMMA ChangedGood ==
  ASSUME FileInv, NEW t \in Threads, handler[t].part \in {"routes", "labels", "setup"},
         NEW s \in Changed(handler[t], load_persisted_state)
  PROVE  s \in Settings
<1> DEFINE saved == load_persisted_state
           h == handler[t]
<1>1. saved \in Settings /\ GoodRequest(h)
  BY LoadedGood DEF FileInv
<1>2. CASE h.part = "setup"
  <2>1. h.setup \in Setup /\ s \in Applied(h.setup, saved)
    BY <1>1, <1>2 DEF Changed, GoodRequest
  <2>2. PICK list \in Migrations(saved.routes, saved.remotes, h.setup.remotes) :
          s = [remotes |-> h.setup.remotes, channels |-> h.setup.channels,
               labels |-> saved.labels, routes |-> list]
    BY <2>1 DEF Applied
  <2>3. saved.routes \subseteq Route /\ saved.remotes \in Seq(Remote) /\ saved.labels \in Seq(Labels)
    BY <1>1 DEF Settings
  <2>4. h.setup.remotes \in Seq(Remote) /\ h.setup.channels \in Channels
    BY <2>1, ConfigStoreAssumption DEF Setup
  <2>5. list \subseteq Route
    BY <2>3, <2>4, MigratedRoutes
  <2> QED BY <2>2, <2>3, <2>4, <2>5 DEF Settings
<1>3. CASE h.part = "labels"
  <2>1. s = [saved EXCEPT !.labels = h.labels] /\ h.labels \in Seq(Labels)
    BY <1>1, <1>3 DEF Changed, GoodRequest
  <2> QED BY <1>1, <2>1 DEF Settings
<1>4. CASE h.part = "routes"
  <2>1. s = [saved EXCEPT !.routes = h.routes] /\ h.routes \subseteq Route
    BY <1>1, <1>4 DEF Changed, GoodRequest
  <2> QED BY <1>1, <2>1 DEF Settings
<1> QED
  BY <1>2, <1>3, <1>4

LEMMA BootTypes ==
  ASSUME FileInv, HistoryInv, NEW args \in Setup \cup {None}, Boot(args)
  PROVE  FileInv' /\ MemoryInv' /\ HistoryInv'
<1> DEFINE saved == load_persisted_state
<1>1. saved \in Settings
  BY LoadedGood
<1>2. engine'.channels \in Channels
  BY <1>1, ConfigStoreAssumption DEF Boot, Settings, Setup
<1>3. GoodRemotes(engine'.remotes)
  BY <1>1, OneGood, ListedGood DEF Boot, Settings
<1>4. \A t \in Threads : handler'[t].pc = "idle" /\ handler'[t].part = "none"
  BY DEF Boot, Idle, Asked
<1>5. FileInv'
  BY <1>4 DEF Boot, FileInv, GoodRequest
<1>6. labels' \in [1..engine'.channels -> Labels]
  <2>1. labels' = Fit(saved.labels, engine'.channels) /\ saved.labels \in Seq(Labels)
    BY <1>1 DEF Boot, Settings
  <2>2. engine'.channels \in Nat
    BY <1>2, ChannelNumber
  <2> HIDE DEF saved
  <2> QED BY <2>1, <2>2, FitType
<1>7. \A slot \in MaskSlots : masks'[slot] \subseteq Channel
  BY MaskType DEF Boot
<1>8. routes' \subseteq Route /\ preset' = None
  BY ValidAreRoutes DEF Boot
<1>9. MemoryInv'
  BY <1>2, <1>3, <1>6, <1>7, <1>8 DEF MemoryInv
<1>10. HistoryInv'
  BY DEF Boot, HistoryInv
<1> QED
  BY <1>5, <1>9, <1>10

LEMMA InitTypes == Init => FileInv /\ MemoryInv /\ HistoryInv
<1> SUFFICES ASSUME Init PROVE FileInv /\ MemoryInv /\ HistoryInv
  OBVIOUS
<1>1. FileInv
  BY DEF Init, FileInv, GoodRequest, Idle, Asked
<1>2. labels \in [1..2 -> Labels]
  <2>1. labels = Fit(<<>>, 2) /\ <<>> \in Seq(Labels)
    BY EmptySeq DEF Init
  <2> QED BY <2>1, FitType
<1>3. MemoryInv
  BY <1>2, NoneGood, ConfigStoreAssumption DEF Init, MemoryInv
<1>4. requests \in 0..MaxRequests
  BY ConfigStoreAssumption DEF Init
<1>5. clash \in BOOLEAN /\ mixed \in BOOLEAN
  BY DEF Init
<1> QED
  BY <1>1, <1>3, <1>4, <1>5 DEF HistoryInv

LEMMA NextFile == HandlerInv /\ FileInv /\ MemoryInv /\ HistoryInv /\ [Next]_vars => FileInv'
<1> SUFFICES ASSUME HandlerInv, FileInv, MemoryInv, HistoryInv, [Next]_vars PROVE FileInv'
  OBVIOUS
<1>1. ASSUME NEW t \in Threads, Handle(t) PROVE FileInv'
  <2>0. GoodHandler(handler[t]) /\ GoodRequest(handler[t])
    BY DEF HandlerInv, FileInv
  <2>1. ASSUME NEW h, Becomes(t, h), h.pc \notin {"empty", "write"}, GoodRequest(h),
               UNCHANGED <<file, copy, rebuilds>>
        PROVE  FileInv'
    BY <2>1, Frame DEF FileInv
  <2>2. ASSUME NEW list, list \subseteq Route, Patch(t, list), UNCHANGED <<file, copy, rebuilds>>
        PROVE  FileInv'
    <3> DEFINE h == Asked("routes", "masks", list, None, None)
    <3>1. Becomes(t, h)
      BY <2>2, Records
    <3>2. h.pc = "masks" /\ GoodRequest(h)
      BY <2>2 DEF GoodRequest, Asked
    <3> HIDE DEF h
    <3> QED BY <2>1, <2>2, <3>1, <3>2
  <2>3. CASE preset_save_handler(t)
    BY <2>3 DEF preset_save_handler, FileInv, GoodRequest
  <2>4. ASSUME NEW list \in LabelLists, local_labels_post_handler(t, list) PROVE FileInv'
    <3> DEFINE h == Asked("labels", "load", None, labels', None)
    <3>1. labels' \in Seq(Labels)
      <4>1. list \in Seq(Labels) /\ engine.channels \in Nat
        BY ConfigStoreAssumption, ChannelNumber DEF MemoryInv
      <4> QED BY <2>4, <4>1, FitType DEF local_labels_post_handler
    <3>2. Becomes(t, h) /\ UNCHANGED <<file, copy, rebuilds>>
      BY <2>4, Records DEF local_labels_post_handler
    <3>3. h.pc = "load" /\ GoodRequest(h)
      BY <3>1 DEF GoodRequest, Asked
    <3> HIDE DEF h
    <3> QED BY <2>1, <3>2, <3>3
  <2>5. ASSUME NEW rs \in RemoteLists, NEW n \in Channels, setup_apply_handler(t, rs, n)
        PROVE  FileInv'
    <3> DEFINE h == Asked("setup", "load", None, None, [remotes |-> rs, channels |-> n])
    <3>1. Becomes(t, h) /\ UNCHANGED <<file, copy, rebuilds>>
      BY <2>5, Records DEF setup_apply_handler
    <3>2. h.pc = "load" /\ GoodRequest(h)
      BY DEF GoodRequest, Asked, Setup
    <3> HIDE DEF h
    <3> QED BY <2>1, <3>1, <3>2
  <2>6. CASE StoreMask(t) \/ ReplaceList(t)
    <3>1. PICK h : /\ Becomes(t, h) /\ h.pc \in {"masks", "load"}
                   /\ h.part = "routes" /\ h.routes = handler[t].routes
                   /\ handler[t].part = "routes"
      <4>0. handler[t].part = "routes" /\ handler[t].pc = "masks"
        BY <2>0, <2>6 DEF StoreMask, ReplaceList, GoodHandler
      <4>1. CASE StoreMask(t)
        <5> DEFINE h == [handler[t] EXCEPT !.slot = handler[t].slot + 1]
        <5>1. Becomes(t, h)
          BY <4>1, Records
        <5>2. h.pc = "masks" /\ h.part = "routes" /\ h.routes = handler[t].routes
          BY <2>0, <4>0 DEF GoodHandler
        <5> HIDE DEF h
        <5> QED BY <4>0, <5>1, <5>2
      <4>2. CASE ReplaceList(t)
        <5> DEFINE h == [handler[t] EXCEPT !.pc = "load"]
        <5>1. Becomes(t, h)
          BY <4>2, Records
        <5>2. h.pc = "load" /\ h.part = "routes" /\ h.routes = handler[t].routes
          BY <2>0, <4>0 DEF GoodHandler
        <5> HIDE DEF h
        <5> QED BY <4>0, <5>1, <5>2
      <4> QED BY <2>6, <4>0, <4>1, <4>2
    <3>2. UNCHANGED <<file, copy, rebuilds>>
      BY <2>6 DEF StoreMask, ReplaceList
    <3>3. GoodRequest(h)
      BY <2>0, <3>1 DEF GoodRequest
    <3> QED BY <2>1, <3>1, <3>2, <3>3
  <2>7. CASE Load(t)
    <3>1. PICK s \in Changed(handler[t], load_persisted_state) : copy' = [copy EXCEPT ![t] = s]
      BY <2>7 DEF Load
    <3>2. s \in Settings
      BY <2>0, <2>7, ChangedGood DEF Load, GoodHandler, Parts
    <3> DEFINE h == [handler[t] EXCEPT !.pc = "empty"]
    <3>3. Becomes(t, h) /\ GoodRequest(h)
      BY <2>0, <2>7, Records DEF GoodHandler, GoodRequest
    <3> HIDE DEF h
    <3>4. UNCHANGED <<file, rebuilds>>
      BY <2>7 DEF Load
    <3>5. /\ copy' = [u \in Threads |-> copy'[u]]
          /\ copy'[t] = s /\ \A u \in Threads \ {t} : copy'[u] = copy[u]
      BY <3>1 DEF FileInv
    <3> QED BY <3>2, <3>3, <3>4, <3>5, Frame DEF FileInv
  <2>8. CASE EmptyFile(t)
    <3> DEFINE h == [handler[t] EXCEPT !.pc = "write"]
    <3>1. /\ Becomes(t, h) /\ GoodRequest(h)
          /\ handler[t].pc = "empty" /\ file' = Empty /\ UNCHANGED <<copy, rebuilds>>
      BY <2>0, <2>8, Records DEF EmptyFile, GoodHandler, GoodRequest
    <3> HIDE DEF h
    <3> QED BY <3>1, Frame DEF FileInv
  <2>9. CASE WriteFile(t) \/ SaveFails(t)
    <3>1. Becomes(t, Idle) /\ Idle.pc = "idle" /\ GoodRequest(Idle)
      BY <2>9, Records DEF Idle, Asked, GoodRequest
    <3>2. copy[t] \in Settings /\ (file' = copy[t] \/ file' = Torn \/ file' = file)
      BY <2>9 DEF WriteFile, SaveFails, SaveDone, FileInv
    <3>3. rebuilds' \subseteq Setup
      BY <2>0, <2>9 DEF WriteFile, SaveFails, SaveDone, FileInv, GoodRequest
    <3>4. /\ copy' = [u \in Threads |-> copy'[u]]
          /\ \A u \in Threads \ {t} : copy'[u] = copy[u]
      BY <2>9 DEF WriteFile, SaveFails, SaveDone, FileInv
    <3> QED BY <3>1, <3>2, <3>3, <3>4, Frame DEF FileInv
  <2>10. ASSUME NEW list \in RouteLists, routes_post_handler(t, list) PROVE FileInv'
    BY <2>2, <2>10, ConfigStoreAssumption DEF routes_post_handler
  <2>11. CASE preset_recall_handler(t)
    BY <2>2, <2>11 DEF preset_recall_handler, MemoryInv
  <2> QED
    BY <1>1, <2>3, <2>4, <2>5, <2>6, <2>7, <2>8, <2>9, <2>10, <2>11 DEF Handle
<1>2. CASE Exec
  BY <1>2, BootTypes DEF Exec, FileInv
<1>3. CASE Restart
  BY <1>3, BootTypes DEF Restart
<1>4. CASE UNCHANGED vars
  BY <1>4 DEF vars, FileInv, GoodRequest
<1> QED
  BY <1>1, <1>2, <1>3, <1>4 DEF Next

LEMMA NextMemory == HandlerInv /\ FileInv /\ MemoryInv /\ HistoryInv /\ [Next]_vars => MemoryInv'
<1> SUFFICES ASSUME HandlerInv, FileInv, MemoryInv, HistoryInv, [Next]_vars PROVE MemoryInv'
  OBVIOUS
<1>0. ASSUME UNCHANGED memory PROVE MemoryInv'
  BY <1>0 DEF memory, MemoryInv
<1>1. ASSUME NEW t \in Threads, Handle(t) PROVE MemoryInv'
  <2>0. GoodHandler(handler[t]) /\ GoodRequest(handler[t])
    BY DEF HandlerInv, FileInv
  <2>1. CASE preset_save_handler(t)
    BY <2>1 DEF preset_save_handler, MemoryInv
  <2>2. ASSUME NEW list \in LabelLists, local_labels_post_handler(t, list) PROVE MemoryInv'
    <3>1. list \in Seq(Labels) /\ engine.channels \in Nat
      BY ConfigStoreAssumption, ChannelNumber DEF MemoryInv
    <3>2. labels' \in [1..engine.channels -> Labels]
      BY <2>2, <3>1, FitType DEF local_labels_post_handler
    <3> QED BY <2>2, <3>2 DEF local_labels_post_handler, MemoryInv
  <2>3. CASE StoreMask(t)
    <3> DEFINE m == Mask(handler[t].routes, handler[t].slot, engine.channels)
    <3>1. masks' = [masks EXCEPT ![handler[t].slot] = m] /\ m \subseteq Channel
      BY <2>3, MaskType DEF StoreMask, MaskStored
    <3> HIDE DEF m
    <3>2. \A slot \in MaskSlots : masks'[slot] \subseteq Channel
      BY <3>1 DEF MemoryInv
    <3> QED BY <2>3, <3>2 DEF StoreMask, MemoryInv
  <2>4. CASE ReplaceList(t)
    <3>1. routes' \subseteq Route
      BY <2>0, <2>4 DEF ReplaceList, GoodHandler, GoodRequest
    <3> QED BY <2>4, <3>1 DEF ReplaceList, MemoryInv
  <2>5. CASE UNCHANGED memory
    BY <1>0, <2>5
  <2> QED
    BY <1>1, <2>1, <2>2, <2>3, <2>4, <2>5
    DEF Handle, routes_post_handler, preset_recall_handler, setup_apply_handler,
        Load, EmptyFile, WriteFile, SaveFails, SaveDone
<1>2. CASE Exec
  BY <1>2, BootTypes DEF Exec, FileInv
<1>3. CASE Restart
  BY <1>3, BootTypes DEF Restart
<1>4. CASE UNCHANGED vars
  BY <1>0, <1>4 DEF vars, memory
<1> QED
  BY <1>1, <1>2, <1>3, <1>4 DEF Next

LEMMA NextHistory == HandlerInv /\ FileInv /\ HistoryInv /\ [Next]_vars => HistoryInv'
<1> SUFFICES ASSUME HandlerInv, FileInv, HistoryInv, [Next]_vars PROVE HistoryInv'
  OBVIOUS
<1>1. ASSUME NEW t \in Threads, Handle(t) PROVE HistoryInv'
  <2>1. requests' \in 0..MaxRequests
    <3>1. ASSUME Request(t) PROVE requests' \in 0..MaxRequests
      BY <3>1, ConfigStoreAssumption DEF Request, HistoryInv
    <3>2. Request(t) \/ requests' = requests
      BY <1>1 DEF Handle, routes_post_handler, preset_recall_handler, preset_save_handler,
                  local_labels_post_handler, setup_apply_handler, StoreMask, ReplaceList,
                  Load, EmptyFile, WriteFile, SaveFails, SaveDone
    <3> QED BY <3>1, <3>2 DEF HistoryInv
  <2>2. clash' \in BOOLEAN
    <3>1. \/ clash' = clash \/ clash' = TRUE
          \/ clash' = (clash \/ Clashes(t))
          \/ clash' = (clash \/ \E u \in Threads : handler[u].part = "labels")
      BY <1>1, Zenon DEF Handle, routes_post_handler, preset_recall_handler, preset_save_handler,
                  local_labels_post_handler, setup_apply_handler, StoreMask, ReplaceList,
                  Load, EmptyFile, WriteFile, SaveFails, SaveDone
    <3> QED BY <3>1, Zenon DEF HistoryInv
  <2>3. mixed' \in BOOLEAN
    <3>1. mixed' = mixed \/ mixed' = (mixed \/ Patching # {})
      BY <1>1, Zenon DEF Handle, routes_post_handler, preset_recall_handler, preset_save_handler,
                  local_labels_post_handler, setup_apply_handler, StoreMask, ReplaceList,
                  Load, EmptyFile, WriteFile, SaveFails, SaveDone, Patch
    <3> QED BY <3>1, Zenon DEF HistoryInv
  <2> QED BY <2>1, <2>2, <2>3 DEF HistoryInv
<1>2. CASE Exec
  BY <1>2, BootTypes DEF Exec, FileInv
<1>3. CASE Restart
  BY <1>3, BootTypes DEF Restart
<1>4. CASE UNCHANGED vars
  BY <1>4 DEF vars, HistoryInv
<1> QED
  BY <1>1, <1>2, <1>3, <1>4 DEF Next

LEMMA TypesAlways ==
  Spec => [](HandlerInv /\ LockInv /\ FileInv /\ MemoryInv /\ HistoryInv)
<1> QED
  BY LockAlways, InitTypes, NextFile, NextMemory, NextHistory, PTL DEF Spec

\* Masks are words, lists hold routes, a process has one of its channel counts
\* and as many labels, and the lock of the list is held by the handler that
\* saves routes and by no other.
THEOREM TypeCorrect == Spec => []TypeOK
<1>1. ASSUME HandlerInv, LockInv, FileInv, MemoryInv, HistoryInv PROVE TypeOK
  <2>1. ASSUME NEW t \in Threads
        PROVE  /\ handler[t].pc \in {"idle", "masks", "load", "empty", "write"}
               /\ handler[t].slot \in MaskSlots \cup {MaxChannels + 2}
               /\ lock = t <=> t \in Saving /\ handler[t].part = "routes"
    <3>1. handler[t].pc \in {"idle", "masks", "load", "empty", "write"}
          /\ handler[t].slot \in 0..(MaxChannels + 2)
      BY <1>1 DEF HandlerInv, GoodHandler, PCs
    <3>2. handler[t].slot \in MaskSlots \cup {MaxChannels + 2}
      BY <3>1, RoutingAssumption DEF MaskSlots
    <3>3. lock = t <=> t \in Saving /\ handler[t].part = "routes"
      BY <1>1 DEF LockInv, SavesRoutes, Saving
    <3> QED BY <3>1, <3>2, <3>3
  <2> QED BY <1>1, <2>1 DEF TypeOK, LockInv, MemoryInv, HistoryInv
<1> QED
  BY <1>1, TypesAlways, PTL

-----------------------------------------------------------------------------
(* What is heard                                                           *)

LEMMA Products ==
  ASSUME NEW a \in Nat, NEW b \in Nat, a <= b, NEW n \in Nat PROVE a * n <= b * n
<1>1. (b - a) * n >= 0
  OBVIOUS
<1> QED
  BY <1>1

\* Channel d of remote j is channel c of a remote k places after it.
Spills(j, d, i, c, n) == \E k \in 0..i : j = i - k /\ d = k * n + c

\* A bit of a mask has one remote and one channel below n; another remote and
\* channel with this bit have a remote before it and a channel that is not below n
\* (routing.rs:90, engine.rs:944).
LEMMA FlatBitSpills ==
  ASSUME NEW n \in 1..MaxChannels, NEW i \in Nat, NEW c \in 0..(n - 1),
         NEW j \in Nat, NEW d \in Nat
  PROVE  FlatBit(j, d, n) = FlatBit(i, c, n) <=> Spills(j, d, i, c, n)
<1>0. n \in Nat
  BY RoutingAssumption
<1>1. ASSUME FlatBit(j, d, n) = FlatBit(i, c, n)
      PROVE  \E k \in 0..i : j = i - k /\ d = k * n + c
  <2>1. j <= i
    <3>1. ASSUME i + 1 <= j PROVE FALSE
      <4>1. (i + 1) * n <= j * n
        BY <1>0, <3>1, Products
      <4>2. (i + 1) * n = i * n + n /\ i * n \in Nat /\ j * n \in Nat
        BY <1>0
      <4>3. j * n + d = i * n + c
        BY <1>1 DEF FlatBit
      <4> QED BY <1>0, <4>1, <4>2, <4>3
    <3> QED BY <3>1
  <2>2. i - j \in 0..i /\ j = i - (i - j)
    BY <2>1
  <2>3. d = (i - j) * n + c
    <3>1. (i - j) * n = i * n - j * n
      BY <1>0
    <3>2. j * n + d = i * n + c /\ i * n \in Nat /\ j * n \in Nat
      BY <1>0, <1>1 DEF FlatBit
    <3> QED BY <3>1, <3>2
  <2> QED BY <2>2, <2>3
<1>2. ASSUME NEW k \in 0..i, j = i - k, d = k * n + c PROVE FlatBit(j, d, n) = FlatBit(i, c, n)
  <2>1. (i - k) * n + (k * n + c) = i * n + c
    BY <1>0
  <2> QED BY <1>2, <2>1 DEF FlatBit
<1> QED
  BY <1>1, <1>2 DEF Spills

\* The bit of a remote's channel is in a mask if the list wires that channel or
\* one that spills to it.
LEMMA BitIsWire ==
  ASSUME NEW list \in SUBSET Route, NEW n \in 1..MaxChannels,
         NEW o \in Outputs, NEW i \in Nat, NEW c \in 0..(n - 1), i * n + n <= MaxChannels
  PROVE  (i * n + c \in OutputMask(list, o, n))
           <=> \E k \in 0..i : Wire(PeerCh(i - k, k * n + c), Output(o)) \in list
<1>1. i * n \in Nat /\ i * n + c \in Channel
  BY RoutingAssumption DEF Channel
<1>2. ASSUME i * n + c \in OutputMask(list, o, n)
      PROVE  \E k \in 0..i : Wire(PeerCh(i - k, k * n + c), Output(o)) \in list
  <2>1. PICK v \in list : /\ v.source.kind = "peer" /\ v.destination = Output(o)
                          /\ FlatBit(v.source.remote, v.source.ch, n) = FlatBit(i, c, n)
    BY <1>2 DEF OutputMask, FlatBit
  <2>2. v.source \in Endpoint /\ v = [source |-> v.source, destination |-> v.destination]
    BY DEF Route
  <2>3. v.source.remote \in Nat /\ v.source.ch \in Nat
    BY <2>2, RoutingAssumption DEF Endpoint, Channel
  <2>4. PICK k \in 0..i : v.source.remote = i - k /\ v.source.ch = k * n + c
    <3>1. PICK j \in Nat, d \in Nat : j = v.source.remote /\ d = v.source.ch
      BY <2>3
    <3>2. FlatBit(j, d, n) = FlatBit(i, c, n)
      BY <2>1, <3>1
    <3>3. Spills(j, d, i, c, n)
      BY <3>2, FlatBitSpills
    <3> QED BY <3>1, <3>3 DEF Spills
  <2>5. v.source = PeerCh(i - k, k * n + c)
    BY <2>1, <2>2, <2>4 DEF Endpoint, PeerCh
  <2> QED BY <2>1, <2>2, <2>5 DEF Wire
<1>3. ASSUME NEW k \in 0..i, Wire(PeerCh(i - k, k * n + c), Output(o)) \in list
      PROVE  i * n + c \in OutputMask(list, o, n)
  <2>1. PICK v \in list : v = Wire(PeerCh(i - k, k * n + c), Output(o))
    BY <1>3
  <2>2. v.source.kind = "peer" /\ v.destination = Output(o)
        /\ v.source.remote = i - k /\ v.source.ch = k * n + c
    BY <2>1 DEF Wire, PeerCh
  <2>3. i - k \in Nat /\ k * n + c \in Nat
    BY RoutingAssumption
  <2>4. FlatBit(i - k, k * n + c, n) = FlatBit(i, c, n)
    <3>1. Spills(i - k, k * n + c, i, c, n)
      BY DEF Spills
    <3> QED BY <2>3, <3>1, FlatBitSpills
  <2> QED BY <1>1, <2>2, <2>4 DEF OutputMask, FlatBit
<1> QED
  BY <1>2, <1>3

\* The callback reads the rings of the remotes with an index below the number of
\* enabled ones if it resamples, and of the first one if it does not.
LEMMA RingIsRead ==
  ASSUME NEW remotes, GoodRemotes(remotes), NEW n \in 1..MaxChannels,
         NEW r \in HasSession(remotes, n), NEW c \in 0..(n - 1)
  PROVE  r.index * n + c < RingsRead(remotes, n)
           <=> IF Resampled THEN r.index < Cardinality(active_remotes(remotes)) ELSE r.index = 0
<1> DEFINE active == active_remotes(remotes)
           k == Cardinality(active)
<1>1. k \in Nat /\ k # 0
  <2>1. IsFiniteSet(active)
    BY FS_Subset DEF GoodRemotes, active_remotes
  <2>2. r \in active
    BY DEF HasSession
  <2> QED BY <2>1, <2>2, FS_CardinalityType, FS_EmptySet
<1>2. r.index \in Nat /\ r.index * n + n <= MaxChannels /\ n \in Nat /\ n >= 1
  BY RoutingAssumption DEF HasSession, GoodRemotes, active_remotes
<1>3. total_rx_slots(remotes, n) = k * n
  BY <1>1 DEF total_rx_slots
<1> HIDE DEF k, active
<1>4. PICK i \in Nat : i = r.index
  BY <1>2
<1>5. i * n \in Nat /\ k * n \in Nat /\ (i + 1) * n = i * n + n
  BY <1>1, <1>2
<1>6. ASSUME i < k PROVE i * n + c < k * n
  <2>1. (i + 1) * n <= k * n
    <3>1. i + 1 \in Nat /\ i + 1 <= k
      BY <1>1, <1>6
    <3> QED BY <1>1, <1>2, <3>1, Products
  <2> QED BY <1>2, <1>5, <2>1
<1>7. ASSUME k <= i PROVE ~(i * n + c < k * n)
  <2>1. k * n <= i * n
    BY <1>1, <1>2, <1>7, Products
  <2> QED BY <1>5, <2>1
<1>8. CASE Resampled
  <2>1. i * n + c < MaxChannels
    BY <1>2, <1>4, <1>5, RoutingAssumption
  <2>2. i * n + c < RingsRead(remotes, n) <=> i * n + c < k * n
    BY <1>3, <1>5, <1>8, <2>1, RoutingAssumption DEF RingsRead
  <2>3. i * n + c < RingsRead(remotes, n) <=> i < k
    BY <1>1, <1>6, <1>7, <2>2
  <2> QED BY <1>4, <1>8, <2>3 DEF k, active
<1>9. CASE ~Resampled
  <2>1. RingsRead(remotes, n) = n
    BY <1>9 DEF RingsRead
  <2>2. i = 0 => i * n + c < n
    BY <1>2
  <2>3. ASSUME i # 0 PROVE ~(i * n + c < n)
    <3>1. 1 * n <= i * n
      <4>1. 1 <= i /\ 1 \in Nat
        BY <2>3
      <4> QED BY <1>2, <4>1, Products
    <3> QED BY <1>2, <1>5, <3>1
  <2> QED BY <1>4, <1>9, <2>1, <2>2, <2>3
<1> QED
  BY <1>8, <1>9

LEMMA HeardInv == PatchInv /\ MemoryInv => HeardAsRouted
<1> DEFINE remotes == engine.remotes
           n == engine.channels
           with == HasSession(remotes, n)
           Read(r) == IF Resampled THEN r.index < Cardinality(active_remotes(remotes))
                      ELSE r.index = 0
           played == {r \in with : Read(r)}
           Meant(r, c, o) == \E k \in 0..r.index :
                               Wire(PeerCh(r.index - k, k * n + c), Output(o)) \in routes
<1> SUFFICES ASSUME PatchInv, MemoryInv, Patching = {}, ~mixed, NEW o \in Outputs
             PROVE  Heard(remotes, n, masks[o]) =
                      {h \in {r.name : r \in played} \X (0..(n - 1)) :
                         \E r \in played : r.name = h[1] /\ Meant(r, h[2], o)}
  BY DEF HeardAsRouted
<1>1. n \in 1..MaxChannels /\ GoodRemotes(remotes)
  BY ChannelNumber DEF MemoryInv
<1>2. masks[o] = OutputMask(routes, o, n)
  BY RoutingAssumption DEF PatchInv, Mask, MaskSlots, Outputs
<1>3. \A r \in with : r.index \in Nat /\ r.index * n + n <= MaxChannels
  BY <1>1 DEF GoodRemotes, HasSession, active_remotes
<1>4. ASSUME NEW r \in with, NEW c \in 0..(n - 1)
      PROVE  /\ r.index * n + c < RingsRead(remotes, n) <=> Read(r)
             /\ r.index * n + c \in masks[o] <=> Meant(r, c, o)
  <2>1. r.index * n + c < RingsRead(remotes, n) <=> Read(r)
    BY <1>1, RingIsRead
  <2>2. r.index * n + c \in OutputMask(routes, o, n) <=> Meant(r, c, o)
    <3>1. PICK i \in Nat : i = r.index
      BY <1>3
    <3>2. i * n + c \in OutputMask(routes, o, n)
            <=> \E k \in 0..i : Wire(PeerCh(i - k, k * n + c), Output(o)) \in routes
      <4>1. i * n + n <= MaxChannels /\ routes \in SUBSET Route
        BY <1>3, <3>1 DEF MemoryInv
      <4> QED BY <1>1, <4>1, BitIsWire
    <3> QED BY <3>1, <3>2
  <2> QED BY <1>2, <2>1, <2>2
<1> HIDE DEF n, with, remotes, Read, Meant
<1>5. Heard(remotes, n, masks[o])
        = {h \in {r.name : r \in with} \X (0..(n - 1)) :
             \E r \in with : r.name = h[1] /\ Read(r) /\ Meant(r, h[2], o)}
  BY <1>4 DEF Heard, with
<1> QED
  BY <1>5

\* Whatever handlers, saves and restarts there were, for any list of routes, any
\* remotes, enabled or not, with any indices, and either kind of callback: an output
\* plays the channels the list wires to it, those that spill and no other.
THEOREM HeardCorrect == Spec => []HeardAsRouted
<1> QED
  BY HeardInv, InitHandler, NextHandler, InitMasks, NextMasks, TypesAlways, PTL DEF Spec
-----------------------------------------------------------------------------
(* Saves one after the other                                               *)

Busy == {t \in Threads : handler[t].pc \in {"empty", "write"}}

Part(part) == {t \in Threads : handler[t].part = part}

\* As long as no save was loaded while another one was under way: one handler
\* at most is between loading and writing, it finds the file as it left it,
\* and one at most saves labels.
OrderInv ==
  ~clash => /\ \A t, u \in Busy : t = u
            /\ \A t \in Busy : handler[t].pc = "write" => file = Empty
            /\ \A t, u \in Part("labels") : t = u

LEMMA Moved ==
  ASSUME NEW t \in Threads, NEW h, Becomes(t, h)
  PROVE  /\ Busy' = IF h.pc \in {"empty", "write"} THEN Busy \cup {t} ELSE Busy \ {t}
         /\ \A part : Part(part)' = IF h.part = part THEN Part(part) \cup {t} ELSE Part(part) \ {t}
         /\ \A u \in Threads \ {t} : handler'[u] = handler[u]
         /\ handler'[t] = h
  BY Frame DEF Busy, Part

LEMMA BootOrder == ASSUME NEW args, Boot(args) PROVE OrderInv'
<1>1. Busy' = {} /\ Part("labels")' = {}
  BY DEF Boot, Busy, Part, Idle, Asked
<1> QED
  BY <1>1 DEF OrderInv

LEMMA NextOrder == HandlerInv /\ LockInv /\ OrderInv /\ [Next]_vars => OrderInv'
<1> SUFFICES ASSUME HandlerInv, LockInv, OrderInv, [Next]_vars PROVE OrderInv'
  OBVIOUS
<1>1. ASSUME NEW t \in Threads, Handle(t) PROVE OrderInv'
  <2>0. GoodHandler(handler[t])
    BY DEF HandlerInv
  <2>1. ASSUME NEW h, Becomes(t, h), h.pc \notin {"empty", "write"}, t \notin Busy,
               h.part # "labels", UNCHANGED <<file, clash>>
        PROVE  OrderInv'
    <3>1. Busy' = Busy /\ Part("labels")' \subseteq Part("labels")
      BY <2>1, Moved
    <3>2. \A u \in Busy : handler'[u] = handler[u]
      BY <2>1, Moved DEF Busy
    <3> QED BY <2>1, <3>1, <3>2 DEF OrderInv
  <2>2. ASSUME NEW list, Request(t), Patch(t, list), UNCHANGED <<file, clash>> PROVE OrderInv'
    BY <2>1, <2>2, Records DEF Request, Busy, Asked
  <2>3. CASE preset_save_handler(t)
    BY <2>3 DEF preset_save_handler, OrderInv, Busy, Part
  <2>4. ASSUME NEW list, local_labels_post_handler(t, list) PROVE OrderInv'
    <3> DEFINE h == Asked("labels", "load", None, labels', None)
    <3>1. Becomes(t, h) /\ h.pc = "load" /\ h.part = "labels"
      BY <2>4, Records DEF Asked
    <3> HIDE DEF h
    <3>2. t \notin Busy /\ UNCHANGED file
      BY <2>4 DEF local_labels_post_handler, Request, Busy
    <3>3. Busy' = Busy /\ Part("labels")' = Part("labels") \cup {t}
      BY <3>1, <3>2, Moved
    <3>4. \A u \in Busy : handler'[u] = handler[u]
      BY <3>1, <3>2, Moved DEF Busy
    <3>5. ~clash' => ~clash /\ Part("labels") = {}
      BY <2>4, Zenon DEF local_labels_post_handler, Part
    <3> QED BY <3>2, <3>3, <3>4, <3>5 DEF OrderInv
  <2>5. ASSUME NEW rs, NEW n, setup_apply_handler(t, rs, n) PROVE OrderInv'
    BY <2>1, <2>5, Records DEF setup_apply_handler, Request, Busy, Asked
  <2>6. CASE StoreMask(t)
    <3> DEFINE h == [handler[t] EXCEPT !.slot = handler[t].slot + 1]
    <3>1. Becomes(t, h) /\ h.pc = "masks" /\ h.part = "routes" /\ t \notin Busy
      BY <2>0, <2>6, Records DEF StoreMask, GoodHandler, Busy
    <3> HIDE DEF h
    <3> QED BY <2>1, <2>6, <3>1 DEF StoreMask
  <2>7. CASE ReplaceList(t)
    <3> DEFINE h == [handler[t] EXCEPT !.pc = "load"]
    <3>1. Becomes(t, h) /\ h.pc = "load" /\ h.part = "routes" /\ t \notin Busy
      BY <2>0, <2>7, Records DEF ReplaceList, GoodHandler, Busy
    <3> HIDE DEF h
    <3> QED BY <2>1, <2>7, <3>1 DEF ReplaceList
  <2>8. CASE Load(t)
    <3> DEFINE h == [handler[t] EXCEPT !.pc = "empty"]
    <3>1. Becomes(t, h) /\ h.pc = "empty" /\ h.part = handler[t].part /\ handler[t].pc = "load"
      BY <2>0, <2>8, Records DEF Load, GoodHandler
    <3> HIDE DEF h
    <3>2. ASSUME ~clash' PROVE ~clash /\ Busy = {}
      <4>1. ~clash /\ ~Clashes(t)
        BY <2>8, <3>2, Zenon DEF Load
      <4>2. ASSUME NEW u \in Busy PROVE FALSE
        <5>1. u # t /\ u \in Threads /\ handler[u].pc \in {"empty", "write"}
          BY <3>1 DEF Busy
        <5>2. handler[t].part = "routes" /\ handler[u].part = "routes"
          BY <4>1, <5>1 DEF Clashes
        <5>3. SavesRoutes(handler[t]) /\ SavesRoutes(handler[u])
          BY <3>1, <5>1, <5>2 DEF SavesRoutes
        <5> QED BY <5>1, <5>3 DEF LockInv
      <4> QED BY <4>1, <4>2
    <3>3. ASSUME ~clash' PROVE Busy' = {t} /\ Part("labels")' = Part("labels") /\ handler'[t].pc = "empty"
      BY <3>1, <3>2, <3>3, Moved DEF Part
    <3> QED BY <3>2, <3>3 DEF OrderInv
  <2>9. CASE EmptyFile(t)
    <3> DEFINE h == [handler[t] EXCEPT !.pc = "write"]
    <3>1. Becomes(t, h) /\ h.pc = "write" /\ h.part = handler[t].part /\ t \in Busy
      BY <2>0, <2>9, Records DEF EmptyFile, GoodHandler, Busy
    <3> HIDE DEF h
    <3>2. Busy' = Busy /\ Part("labels")' = Part("labels")
      BY <3>1, Moved DEF Part
    <3>3. file' = Empty /\ clash' = clash
      BY <2>9 DEF EmptyFile
    <3> QED BY <3>2, <3>3 DEF OrderInv
  <2>10. CASE WriteFile(t) \/ SaveFails(t)
    <3>1. Becomes(t, Idle) /\ Idle.pc = "idle" /\ Idle.part = "none" /\ t \in Busy
      BY <2>10, Records DEF Idle, Asked, WriteFile, SaveFails, Busy
    <3>2. Busy' = Busy \ {t} /\ Part("labels")' \subseteq Part("labels")
      BY <3>1, Moved
    <3>3. ASSUME ~clash' PROVE ~clash /\ Busy' = {}
      <4>1. ~clash
        BY <2>10, <3>3, Zenon DEF WriteFile, SaveFails
      <4> QED BY <3>1, <3>2, <4>1 DEF OrderInv
    <3> QED BY <3>2, <3>3 DEF OrderInv
  <2> QED
    BY <1>1, <2>2, <2>3, <2>4, <2>5, <2>6, <2>7, <2>8, <2>9, <2>10
    DEF Handle, routes_post_handler, preset_recall_handler
<1>2. CASE Exec
  BY <1>2, BootOrder DEF Exec
<1>3. CASE Restart
  BY <1>3, BootOrder DEF Restart
<1>4. CASE UNCHANGED vars
  BY <1>4 DEF vars, OrderInv, Busy, Part
<1> QED
  BY <1>1, <1>2, <1>3, <1>4 DEF Next

\* What handlers are to save is what is in memory, and an apply's copy has its
\* remotes.
RequestInv ==
  /\ \A t \in Threads : SavesRoutes(handler[t]) => handler[t].routes = routes
  /\ \A t \in Busy : handler[t].part = "setup" => copy[t].remotes = handler[t].setup.remotes
  /\ ~clash => \A t \in Part("labels") : handler[t].labels = labels

LEMMA BootRequest == ASSUME NEW args, Boot(args) PROVE RequestInv'
<1>1. Busy' = {} /\ Part("labels")' = {} /\ \A t \in Threads : ~SavesRoutes(handler'[t])
  BY DEF Boot, Busy, Part, SavesRoutes, Idle, Asked
<1> QED
  BY <1>1 DEF RequestInv

LEMMA NextRequest ==
  HandlerInv /\ LockInv /\ FileInv /\ OrderInv /\ RequestInv /\ [Next]_vars => RequestInv'
<1> SUFFICES ASSUME HandlerInv, LockInv, FileInv, OrderInv, RequestInv, [Next]_vars
             PROVE  RequestInv'
  OBVIOUS
<1>1. ASSUME NEW t \in Threads, Handle(t) PROVE RequestInv'
  <2>0. GoodHandler(handler[t])
    BY DEF HandlerInv
  <2>1. ASSUME NEW h, Becomes(t, h), h.pc \notin {"empty", "write"}, ~SavesRoutes(h),
               h.part # "labels", ~clash' => ~clash, UNCHANGED <<routes, labels>>,
               \A u \in Threads \ {t} : copy'[u] = copy[u]
        PROVE  RequestInv'
    <3>1. Busy' = Busy \ {t} /\ Part("labels")' = Part("labels") \ {t} /\ handler'[t] = h
          /\ \A u \in Threads \ {t} : handler'[u] = handler[u]
      BY <2>1, Moved
    <3>2. \A u \in Threads : SavesRoutes(handler'[u]) => handler'[u].routes = routes'
      BY <2>1, <3>1 DEF RequestInv
    <3>3. \A u \in Busy' : handler'[u].part = "setup" => copy'[u].remotes = handler'[u].setup.remotes
      BY <2>1, <3>1 DEF RequestInv, Busy
    <3>4. ~clash' => \A u \in Part("labels")' : handler'[u].labels = labels'
      BY <2>1, <3>1 DEF RequestInv, Part
    <3> QED BY <3>2, <3>3, <3>4 DEF RequestInv
  <2>2. ASSUME NEW list, Patch(t, list), UNCHANGED <<routes, labels, copy, clash>>
        PROVE  RequestInv'
    BY <2>1, <2>2, Records DEF SavesRoutes, Asked
  <2>3. CASE preset_save_handler(t)
    BY <2>3 DEF preset_save_handler, RequestInv, Busy, Part
  <2>4. ASSUME NEW list, local_labels_post_handler(t, list) PROVE RequestInv'
    <3> DEFINE h == Asked("labels", "load", None, labels', None)
    <3>1. Becomes(t, h) /\ h.pc = "load" /\ h.part = "labels" /\ h.labels = labels'
      BY <2>4, Records DEF Asked
    <3> HIDE DEF h
    <3>2. t \notin Busy /\ UNCHANGED <<routes, copy>>
      BY <2>4 DEF local_labels_post_handler, Request, Busy
    <3>3. /\ Busy' = Busy /\ Part("labels")' = Part("labels") \cup {t}
          /\ handler'[t] = h /\ \A u \in Threads \ {t} : handler'[u] = handler[u]
      <4>1. Busy' = Busy \ {t}
        BY <3>1, Moved
      <4>2. Part("labels")' = Part("labels") \cup {t}
        BY <3>1, Moved
      <4> QED BY <3>1, <3>2, <4>1, <4>2, Moved
    <3>4. ~clash' => Part("labels") = {}
      BY <2>4, Zenon DEF local_labels_post_handler, Part
    <3>5. \A u \in Threads : SavesRoutes(handler'[u]) => handler'[u].routes = routes'
      BY <3>1, <3>2, <3>3 DEF RequestInv, SavesRoutes
    <3>6. \A u \in Busy' : handler'[u].part = "setup" => copy'[u].remotes = handler'[u].setup.remotes
      BY <3>2, <3>3 DEF RequestInv, Busy
    <3> QED BY <3>1, <3>3, <3>4, <3>5, <3>6 DEF RequestInv
  <2>5. ASSUME NEW rs, NEW n, setup_apply_handler(t, rs, n) PROVE RequestInv'
    BY <2>1, <2>5, Records DEF setup_apply_handler, SavesRoutes, Asked, memory
  <2>6. CASE StoreMask(t)
    <3> DEFINE h == [handler[t] EXCEPT !.slot = handler[t].slot + 1]
    <3>1. Becomes(t, h) /\ h.pc = "masks" /\ h.part = "routes"
      BY <2>0, <2>6, Records DEF StoreMask, GoodHandler
    <3> HIDE DEF h
    <3> QED BY <2>1, <2>6, <3>1 DEF StoreMask, SavesRoutes
  <2>7. CASE ReplaceList(t)
    <3> DEFINE h == [handler[t] EXCEPT !.pc = "load"]
    <3>1. /\ Becomes(t, h) /\ h.pc = "load" /\ h.part = "routes" /\ h.routes = handler[t].routes
          /\ t \notin Busy /\ handler[t].part = "routes"
      BY <2>0, <2>7, Records DEF ReplaceList, GoodHandler, Busy
    <3> HIDE DEF h
    <3>2. \A u \in Threads : ~SavesRoutes(handler[u])
      BY <2>7, ConfigStoreAssumption DEF ReplaceList, LockInv
    <3>3. routes' = h.routes /\ UNCHANGED <<labels, copy, clash>>
      BY <2>7, <3>1 DEF ReplaceList
    <3>4. Busy' = Busy /\ Part("labels")' \subseteq Part("labels") \ {t} /\ handler'[t] = h
          /\ \A u \in Threads \ {t} : handler'[u] = handler[u]
      BY <3>1, Moved
    <3>5. \A u \in Threads : SavesRoutes(handler'[u]) => handler'[u].routes = routes'
      BY <3>2, <3>3, <3>4
    <3>6. \A u \in Busy' : handler'[u].part = "setup" => copy'[u].remotes = handler'[u].setup.remotes
      BY <3>1, <3>3, <3>4 DEF RequestInv, Busy
    <3>7. ~clash' => \A u \in Part("labels")' : handler'[u].labels = labels'
      BY <3>3, <3>4 DEF RequestInv, Part
    <3> QED BY <3>5, <3>6, <3>7 DEF RequestInv
  <2>8. CASE Load(t)
    <3> DEFINE h == [handler[t] EXCEPT !.pc = "empty"]
    <3>1. /\ Becomes(t, h) /\ h.pc = "empty" /\ h.part = handler[t].part /\ handler[t].pc = "load"
          /\ h.routes = handler[t].routes /\ h.labels = handler[t].labels /\ h.setup = handler[t].setup
      BY <2>0, <2>8, Records DEF Load, GoodHandler
    <3> HIDE DEF h
    <3>2. PICK s \in Changed(handler[t], load_persisted_state) : copy' = [copy EXCEPT ![t] = s]
      BY <2>8 DEF Load
    <3>3. copy'[t] = s /\ \A u \in Threads \ {t} : copy'[u] = copy[u]
      BY <3>2 DEF FileInv
    <3>4. Busy' = Busy \cup {t} /\ Part("labels")' = Part("labels") /\ handler'[t] = h
          /\ \A u \in Threads \ {t} : handler'[u] = handler[u]
      BY <3>1, Moved DEF Part
    <3>5. UNCHANGED <<routes, labels>> /\ (~clash' => ~clash)
      BY <2>8, Zenon DEF Load, memory
    <3>6. handler[t].part = "setup" => s.remotes = handler[t].setup.remotes
      BY <3>2 DEF Changed, Applied
    <3>7. \A u \in Threads : SavesRoutes(handler'[u]) => handler'[u].routes = routes'
      BY <3>1, <3>4, <3>5 DEF RequestInv, SavesRoutes
    <3>8. \A u \in Busy' : handler'[u].part = "setup" => copy'[u].remotes = handler'[u].setup.remotes
      BY <3>1, <3>3, <3>4, <3>6 DEF RequestInv, Busy
    <3>9. ~clash' => \A u \in Part("labels")' : handler'[u].labels = labels'
      BY <3>1, <3>4, <3>5 DEF RequestInv, Part
    <3> QED BY <3>7, <3>8, <3>9 DEF RequestInv
  <2>9. CASE EmptyFile(t)
    <3> DEFINE h == [handler[t] EXCEPT !.pc = "write"]
    <3>1. /\ Becomes(t, h) /\ h.pc = "write" /\ h.part = handler[t].part /\ handler[t].pc = "empty"
          /\ h.routes = handler[t].routes /\ h.labels = handler[t].labels /\ h.setup = handler[t].setup
      BY <2>0, <2>9, Records DEF EmptyFile, GoodHandler
    <3> HIDE DEF h
    <3>2. UNCHANGED <<routes, labels, copy, clash>>
      BY <2>9 DEF EmptyFile, memory
    <3>3. Busy' = Busy /\ Part("labels")' = Part("labels") /\ handler'[t] = h
          /\ \A u \in Threads \ {t} : handler'[u] = handler[u]
      BY <3>1, Moved DEF Part, Busy
    <3>4. \A u \in Threads : SavesRoutes(handler'[u]) => handler'[u].routes = routes'
      BY <3>1, <3>2, <3>3 DEF RequestInv, SavesRoutes
    <3>5. \A u \in Busy' : handler'[u].part = "setup" => copy'[u].remotes = handler'[u].setup.remotes
      BY <3>1, <3>2, <3>3 DEF RequestInv, Busy
    <3>6. ~clash' => \A u \in Part("labels")' : handler'[u].labels = labels'
      BY <3>1, <3>2, <3>3 DEF RequestInv, Part
    <3> QED BY <3>4, <3>5, <3>6 DEF RequestInv
  <2>10. CASE WriteFile(t) \/ SaveFails(t)
    <3>1. Becomes(t, Idle) /\ Idle.pc = "idle" /\ Idle.part = "none" /\ ~SavesRoutes(Idle)
      BY <2>10, Records DEF Idle, Asked, SavesRoutes
    <3>2. UNCHANGED <<routes, labels>> /\ \A u \in Threads \ {t} : copy'[u] = copy[u]
      BY <2>10 DEF WriteFile, SaveFails, SaveDone, memory, FileInv
    <3>3. ~clash' => ~clash
      BY <2>10, Zenon DEF WriteFile, SaveFails
    <3> QED BY <2>1, <3>1, <3>2, <3>3
  <2> QED
    BY <1>1, <2>2, <2>3, <2>4, <2>5, <2>6, <2>7, <2>8, <2>9, <2>10
    DEF Handle, routes_post_handler, preset_recall_handler, memory
<1>2. CASE Exec
  BY <1>2, BootRequest DEF Exec
<1>3. CASE Restart
  BY <1>3, BootRequest DEF Restart
<1>4. CASE UNCHANGED vars
  BY <1>4 DEF vars, RequestInv, Busy, Part
<1> QED
  BY <1>1, <1>2, <1>3, <1>4 DEF Next

-----------------------------------------------------------------------------
(* What is kept                                                            *)

\* The settings in the file, or those it is to hold when the save under way
\* is done.
Kept(s) == (Busy = {} /\ s = load_persisted_state) \/ \E t \in Busy : s = copy[t]

Loading(part) == \E t \in Threads : handler[t].pc = "load" /\ handler[t].part = part

NoApply == \A t \in Busy : handler[t].part # "setup"

\* They have the labels in memory, unless a handler is still to load them; so
\* for the routes, if nothing was applied; and if it was, they have its remotes.
KeptInv ==
  ~clash => \A s : Kept(s) =>
    /\ ~Loading("labels") => Fit(s.labels, engine.channels) = labels
    /\ ~Loading("routes") /\ NoApply /\ rebuilds = {} =>
         ValidRoutes(s.routes, engine.channels) = ValidRoutes(routes, engine.channels)
    /\ NoApply => \A setup : rebuilds = {setup} => s.remotes = setup.remotes

LEMMA BootKept == ASSUME NEW args, Boot(args) PROVE KeptInv'
<1> DEFINE saved == load_persisted_state
           n     == engine'.channels
<1>1. Busy' = {}
  BY DEF Boot, Busy, Idle, Asked
<1>2. load_persisted_state' = saved
  BY DEF Boot, load_persisted_state
<1>3. labels' = Fit(saved.labels, n) /\ routes' = ValidRoutes(saved.routes, n) /\ rebuilds' = {}
  BY DEF Boot
<1>4. ValidRoutes(routes', n) = ValidRoutes(saved.routes, n)
  BY <1>3 DEF ValidRoutes
<1>5. \A s : Kept(s)' => s = saved
  BY <1>1, <1>2 DEF Kept
<1> HIDE DEF saved
<1> QED
  BY <1>3, <1>4, <1>5 DEF KeptInv

LEMMA FitAgain == ASSUME labels \in [1..engine.channels -> Labels], engine.channels \in Nat
                  PROVE  Fit(labels, engine.channels) = labels
<1>1. Len(labels) = engine.channels
  BY LenProperties, SeqDef
<1> QED
  BY <1>1 DEF Fit

LEMMA NextKept ==
  /\ HandlerInv /\ LockInv /\ FileInv /\ MemoryInv /\ OrderInv /\ RequestInv /\ KeptInv
  /\ [Next]_vars
  => KeptInv'
<1> SUFFICES ASSUME HandlerInv, LockInv, FileInv, MemoryInv, OrderInv, RequestInv, KeptInv,
                    [Next]_vars
             PROVE  KeptInv'
  OBVIOUS
<1>1. ASSUME NEW t \in Threads, Handle(t) PROVE KeptInv'
  <2>0. GoodHandler(handler[t])
    BY DEF HandlerInv
  <2>1. ASSUME NEW h, Becomes(t, h), h.pc \notin {"empty", "write"},
               handler[t].pc \notin {"load", "empty", "write"},
               UNCHANGED <<file, copy, rebuilds, engine>>, ~clash' => ~clash,
               labels' = labels \/ (h.pc = "load" /\ h.part = "labels"),
               routes' = routes \/ (h.pc = "load" /\ h.part = "routes")
        PROVE  KeptInv'
    <3>1. Busy' = Busy /\ \A u \in Busy : handler'[u] = handler[u]
      BY <2>1, Moved DEF Busy
    <3>2. \A part : Loading(part) \/ (h.pc = "load" /\ h.part = part) => Loading(part)'
      BY <2>1, Moved DEF Loading
    <3>3. load_persisted_state' = load_persisted_state
      BY <2>1 DEF load_persisted_state
    <3>4. \A s : Kept(s)' => Kept(s)
      BY <2>1, <3>1, <3>3 DEF Kept
    <3>5. NoApply' => NoApply
      BY <3>1 DEF NoApply
    <3>6. ASSUME NEW s, ~clash', Kept(s)'
          PROVE  /\ ~Loading("labels")' => Fit(s.labels, engine'.channels) = labels'
                 /\ ~Loading("routes")' /\ NoApply' /\ rebuilds' = {} =>
                      ValidRoutes(s.routes, engine'.channels) = ValidRoutes(routes', engine'.channels)
                 /\ NoApply' => \A setup : rebuilds' = {setup} => s.remotes = setup.remotes
      BY <2>1, <3>2, <3>4, <3>5, <3>6 DEF KeptInv
    <3> QED BY <3>6 DEF KeptInv
  <2>2. ASSUME NEW list, Request(t), Patch(t, list), UNCHANGED memory,
               UNCHANGED <<file, copy, rebuilds, clash>>
        PROVE  KeptInv'
    BY <2>1, <2>2, Records DEF Request, Asked, memory
  <2>3. CASE preset_save_handler(t)
    BY <2>3 DEF preset_save_handler, KeptInv, Kept, Loading, NoApply, Busy, load_persisted_state
  <2>4. ASSUME NEW list, local_labels_post_handler(t, list) PROVE KeptInv'
    <3> DEFINE h == Asked("labels", "load", None, labels', None)
    <3>1. Becomes(t, h) /\ h.pc = "load" /\ h.part = "labels" /\ handler[t].pc = "idle"
      BY <2>4, Records DEF Asked, local_labels_post_handler, Request
    <3> HIDE DEF h
    <3>2. UNCHANGED <<file, copy, rebuilds, engine, routes>>
      BY <2>4 DEF local_labels_post_handler
    <3>3. ~clash' => ~clash
      BY <2>4, Zenon DEF local_labels_post_handler
    <3> QED BY <2>1, <3>1, <3>2, <3>3
  <2>5. ASSUME NEW rs, NEW n, setup_apply_handler(t, rs, n) PROVE KeptInv'
    BY <2>1, <2>5, Records DEF setup_apply_handler, Request, Asked, memory
  <2>6. CASE StoreMask(t)
    <3> DEFINE h == [handler[t] EXCEPT !.slot = handler[t].slot + 1]
    <3>1. Becomes(t, h) /\ h.pc = "masks" /\ handler[t].pc = "masks"
      BY <2>0, <2>6, Records DEF StoreMask, GoodHandler
    <3> HIDE DEF h
    <3> QED BY <2>1, <2>6, <3>1 DEF StoreMask
  <2>7. CASE ReplaceList(t)
    <3> DEFINE h == [handler[t] EXCEPT !.pc = "load"]
    <3>1. Becomes(t, h) /\ h.pc = "load" /\ h.part = "routes" /\ handler[t].pc = "masks"
      BY <2>0, <2>7, Records DEF ReplaceList, GoodHandler
    <3> HIDE DEF h
    <3> QED BY <2>1, <2>7, <3>1 DEF ReplaceList
  <2>8. CASE Load(t)
    <3> DEFINE h     == [handler[t] EXCEPT !.pc = "empty"]
               saved == load_persisted_state
    <3>1. Becomes(t, h) /\ h.pc = "empty" /\ h.part = handler[t].part /\ handler[t].pc = "load"
          /\ handler[t].part \in {"routes", "labels", "setup"}
      BY <2>0, <2>8, Records DEF Load, GoodHandler, Parts
    <3> HIDE DEF h
    <3>2. PICK s \in Changed(handler[t], saved) : copy' = [copy EXCEPT ![t] = s]
      BY <2>8 DEF Load
    <3>3. copy'[t] = s
      BY <3>2 DEF FileInv
    <3>4. UNCHANGED <<file, memory, rebuilds>> /\ (~clash' => ~clash)
      BY <2>8, Zenon DEF Load
    <3> SUFFICES ASSUME ~clash', NEW k, Kept(k)'
                 PROVE  /\ ~Loading("labels")' => Fit(k.labels, engine'.channels) = labels'
                        /\ ~Loading("routes")' /\ NoApply' /\ rebuilds' = {} =>
                             ValidRoutes(k.routes, engine'.channels)
                               = ValidRoutes(routes', engine'.channels)
                        /\ NoApply' => \A setup : rebuilds' = {setup} => k.remotes = setup.remotes
      BY DEF KeptInv
    <3>5. Busy = {} /\ ~clash
      <4>1. OrderInv'
        BY NextOrder
      <4>2. Busy' = Busy \cup {t} /\ t \notin Busy
        BY <3>1, Moved DEF Busy
      <4> QED BY <3>4, <4>1, <4>2 DEF OrderInv
    <3>6. Busy' = {t} /\ k = s
      BY <3>1, <3>3, <3>5, Moved DEF Kept
    <3>7. Kept(saved)
      BY <3>5 DEF Kept
    <3>8. NoApply
      BY <3>5 DEF NoApply
    <3>9. UNCHANGED <<engine, labels, routes>>
      BY <3>4 DEF memory
    <3>10. \A part : part # handler[t].part /\ Loading(part) => Loading(part)'
      BY <3>1, Moved DEF Loading
    <3>11. saved \in Settings
      BY LoadedGood
    <3>12. CASE handler[t].part = "setup"
      <4>1. s.labels = saved.labels
        BY <3>2, <3>12 DEF Changed, Applied
      <4>2. ~NoApply'
        BY <3>1, <3>6, <3>12, Moved DEF NoApply
      <4>3. ~Loading("labels")' => ~Loading("labels")
        BY <3>10, <3>12
      <4> HIDE DEF saved
      <4> QED BY <3>5, <3>6, <3>7, <3>9, <4>1, <4>2, <4>3 DEF KeptInv
    <3>13. CASE handler[t].part = "labels"
      <4>1. s = [saved EXCEPT !.labels = handler[t].labels]
        BY <3>2, <3>13 DEF Changed
      <4>2. s.labels = handler[t].labels /\ s.routes = saved.routes /\ s.remotes = saved.remotes
        BY <3>11, <4>1 DEF Settings
      <4>3. handler[t].labels = labels
        BY <3>5, <3>13 DEF RequestInv, Part
      <4>4. Fit(labels, engine.channels) = labels
        BY FitAgain, ChannelNumber DEF MemoryInv
      <4>5. ~Loading("routes")' => ~Loading("routes")
        BY <3>10, <3>13
      <4> HIDE DEF saved
      <4> QED BY <3>4, <3>5, <3>6, <3>7, <3>8, <3>9, <4>2, <4>3, <4>4, <4>5 DEF KeptInv
    <3>14. CASE handler[t].part = "routes"
      <4>1. s = [saved EXCEPT !.routes = handler[t].routes]
        BY <3>2, <3>14 DEF Changed
      <4>2. s.routes = handler[t].routes /\ s.labels = saved.labels /\ s.remotes = saved.remotes
        BY <3>11, <4>1 DEF Settings
      <4>3. handler[t].routes = routes
        BY <3>1, <3>14 DEF RequestInv, SavesRoutes
      <4>4. ~Loading("labels")' => ~Loading("labels")
        BY <3>10, <3>14
      <4> HIDE DEF saved
      <4> QED BY <3>4, <3>5, <3>6, <3>7, <3>8, <3>9, <4>2, <4>3, <4>4 DEF KeptInv
    <3> QED BY <3>1, <3>12, <3>13, <3>14
  <2>9. CASE EmptyFile(t)
    <3> DEFINE h == [handler[t] EXCEPT !.pc = "write"]
    <3>1. Becomes(t, h) /\ h.pc = "write" /\ h.part = handler[t].part /\ handler[t].pc = "empty"
      BY <2>0, <2>9, Records DEF EmptyFile, GoodHandler
    <3> HIDE DEF h
    <3>2. UNCHANGED <<engine, labels, routes, rebuilds, copy, clash>>
      BY <2>9 DEF EmptyFile, memory
    <3>3. Busy' = Busy /\ t \in Busy
      BY <3>1, Moved DEF Busy
    <3>4. \A part : Loading(part) => Loading(part)'
      BY <3>1, Moved DEF Loading
    <3>5. NoApply' => NoApply
      <4>1. \A u \in Threads : handler'[u].part = handler[u].part
        BY <3>1, Moved
      <4> QED BY <3>3, <4>1 DEF NoApply, Busy
    <3>6. \A s : Kept(s)' => Kept(s)
      BY <3>2, <3>3 DEF Kept
    <3> QED BY <3>2, <3>4, <3>5, <3>6 DEF KeptInv
  <2>10. CASE SaveFails(t)
    BY <2>10 DEF SaveFails, KeptInv
  <2>11. CASE WriteFile(t)
    <3>1. Becomes(t, Idle) /\ Idle.pc = "idle" /\ handler[t].pc = "write" /\ clash' = clash
      BY <2>11, Records DEF WriteFile, Idle, Asked
    <3>2. UNCHANGED <<engine, labels, routes>>
          /\ rebuilds' = IF handler[t].part = "setup" THEN rebuilds \cup {handler[t].setup}
                         ELSE rebuilds
      BY <2>11 DEF WriteFile, SaveDone, memory
    <3> SUFFICES ASSUME ~clash', NEW k, Kept(k)'
                 PROVE  /\ ~Loading("labels")' => Fit(k.labels, engine'.channels) = labels'
                        /\ ~Loading("routes")' /\ NoApply' /\ rebuilds' = {} =>
                             ValidRoutes(k.routes, engine'.channels)
                               = ValidRoutes(routes', engine'.channels)
                        /\ NoApply' => \A setup : rebuilds' = {setup} => k.remotes = setup.remotes
      BY DEF KeptInv
    <3>3. ~clash /\ t \in Busy /\ Busy = {t} /\ file = Empty
      <4>1. t \in Busy /\ ~clash
        BY <3>1 DEF Busy
      <4> QED BY <3>1, <4>1 DEF OrderInv
    <3>4. Busy' = {}
      BY <3>1, <3>3, Moved
    <3>5. file' = copy[t] /\ copy[t] \in Settings
      BY <2>11, <3>1, <3>3 DEF WriteFile, FileInv
    <3>6. k = copy[t]
      BY <3>4, <3>5, ConfigStoreAssumption DEF Kept, load_persisted_state
    <3>7. Kept(copy[t])
      BY <3>3 DEF Kept
    <3>8. \A part : Loading(part) => Loading(part)'
      BY <3>1, Moved DEF Loading
    <3>9. CASE handler[t].part = "setup"
      <4>1. k.remotes = handler[t].setup.remotes
        BY <3>3, <3>6, <3>9 DEF RequestInv
      <4>2. handler[t].setup \in rebuilds'
        BY <3>2, <3>9
      <4> QED BY <3>2, <3>3, <3>6, <3>7, <3>8, <4>1, <4>2 DEF KeptInv
    <3>10. CASE handler[t].part # "setup"
      <4>1. NoApply
        BY <3>3, <3>10 DEF NoApply
      <4> QED BY <3>2, <3>3, <3>6, <3>7, <3>8, <3>10, <4>1 DEF KeptInv
    <3> QED BY <3>9, <3>10
  <2> QED
    BY <1>1, <2>2, <2>3, <2>4, <2>5, <2>6, <2>7, <2>8, <2>9, <2>10, <2>11
    DEF Handle, routes_post_handler, preset_recall_handler
<1>2. CASE Exec
  BY <1>2, BootKept DEF Exec
<1>3. CASE Restart
  BY <1>3, BootKept DEF Restart
<1>4. CASE UNCHANGED vars
  BY <1>4 DEF vars, KeptInv, Kept, Loading, NoApply, Busy, load_persisted_state
<1> QED
  BY <1>1, <1>2, <1>3, <1>4 DEF Next

\* A save of another part found the labels it has loaded in the file, and leaves
\* them there until it empties it.
FoundInv ==
  ~clash => \A t \in Busy : handler[t].pc = "empty" /\ handler[t].part # "labels" =>
              copy[t].labels = load_persisted_state.labels

LEMMA LoadFinds ==
  ASSUME HandlerInv, LockInv, FileInv, MemoryInv, OrderInv, NEW t \in Threads, Load(t), [Next]_vars
  PROVE  FoundInv'
<1> DEFINE h     == [handler[t] EXCEPT !.pc = "empty"]
           saved == load_persisted_state
<1>0. GoodHandler(handler[t])
  BY DEF HandlerInv
<1>1. Becomes(t, h) /\ h.pc = "empty" /\ h.part = handler[t].part /\ handler[t].pc = "load"
      /\ handler[t].part \in {"routes", "labels", "setup"}
  BY <1>0, Records DEF Load, GoodHandler, Parts
<1> HIDE DEF h
<1>2. PICK s \in Changed(handler[t], saved) : copy' = [copy EXCEPT ![t] = s]
  BY DEF Load
<1>3. copy'[t] = s /\ file' = file
  BY <1>2 DEF FileInv, Load
<1>4. ASSUME ~clash' PROVE Busy' = {t}
  <2>1. Busy' = Busy \cup {t} /\ OrderInv'
    BY <1>1, Moved, NextOrder
  <2> QED BY <1>4, <2>1 DEF OrderInv
<1>5. ASSUME handler[t].part # "labels" PROVE s.labels = saved.labels
  <2>1. CASE handler[t].part = "setup"
    BY <1>2, <2>1 DEF Changed, Applied
  <2>2. CASE handler[t].part = "routes"
    <3>1. s = [saved EXCEPT !.routes = handler[t].routes] /\ saved \in Settings
      BY <1>2, <2>2, LoadedGood DEF Changed
    <3> QED BY <3>1 DEF Settings
  <2> QED BY <1>1, <1>5, <2>1, <2>2
<1>6. handler'[t].part = handler[t].part /\ load_persisted_state' = saved
  BY <1>1, <1>3, Moved DEF load_persisted_state
<1> HIDE DEF saved
<1>7. ASSUME ~clash', NEW u \in Busy', handler'[u].part # "labels"
      PROVE  copy'[u].labels = load_persisted_state'.labels
  BY <1>3, <1>4, <1>5, <1>6, <1>7
<1> QED
  BY <1>7 DEF FoundInv

LEMMA NextFound ==
  /\ HandlerInv /\ LockInv /\ FileInv /\ MemoryInv /\ OrderInv /\ FoundInv /\ [Next]_vars
  => FoundInv'
<1> SUFFICES ASSUME HandlerInv, LockInv, FileInv, MemoryInv, OrderInv, FoundInv, [Next]_vars
             PROVE  FoundInv'
  OBVIOUS
<1>1. ASSUME NEW t \in Threads, Handle(t) PROVE FoundInv'
  <2>0. GoodHandler(handler[t])
    BY DEF HandlerInv
  <2>1. ASSUME NEW h, Becomes(t, h), h.pc \notin {"empty", "write"}, t \notin Busy,
               UNCHANGED <<file, copy>>, ~clash' => ~clash
        PROVE  FoundInv'
    <3>1. Busy' = Busy /\ \A u \in Busy : handler'[u] = handler[u]
      BY <2>1, Moved DEF Busy
    <3>2. load_persisted_state' = load_persisted_state
      BY <2>1 DEF load_persisted_state
    <3> QED BY <2>1, <3>1, <3>2 DEF FoundInv
  <2>2. ASSUME NEW list, Request(t), Patch(t, list), UNCHANGED <<file, copy, clash>>
        PROVE  FoundInv'
    BY <2>1, <2>2, Records DEF Request, Asked, Busy
  <2>3. CASE preset_save_handler(t)
    BY <2>3 DEF preset_save_handler, FoundInv, Busy, load_persisted_state
  <2>4. ASSUME NEW list, local_labels_post_handler(t, list) PROVE FoundInv'
    <3> DEFINE h == Asked("labels", "load", None, labels', None)
    <3>1. Becomes(t, h) /\ h.pc = "load" /\ t \notin Busy
      BY <2>4, Records DEF Asked, local_labels_post_handler, Request, Busy
    <3> HIDE DEF h
    <3>2. UNCHANGED <<file, copy>>
      BY <2>4 DEF local_labels_post_handler
    <3>3. ~clash' => ~clash
      BY <2>4, Zenon DEF local_labels_post_handler
    <3> QED BY <2>1, <3>1, <3>2, <3>3
  <2>5. ASSUME NEW rs, NEW n, setup_apply_handler(t, rs, n) PROVE FoundInv'
    BY <2>1, <2>5, Records DEF setup_apply_handler, Request, Asked, Busy
  <2>6. CASE StoreMask(t)
    <3> DEFINE h == [handler[t] EXCEPT !.slot = handler[t].slot + 1]
    <3>1. Becomes(t, h) /\ h.pc = "masks" /\ t \notin Busy
      BY <2>0, <2>6, Records DEF StoreMask, GoodHandler, Busy
    <3> HIDE DEF h
    <3> QED BY <2>1, <2>6, <3>1 DEF StoreMask
  <2>7. CASE ReplaceList(t)
    <3> DEFINE h == [handler[t] EXCEPT !.pc = "load"]
    <3>1. Becomes(t, h) /\ h.pc = "load" /\ t \notin Busy
      BY <2>0, <2>7, Records DEF ReplaceList, GoodHandler, Busy
    <3> HIDE DEF h
    <3> QED BY <2>1, <2>7, <3>1 DEF ReplaceList
  <2>8. CASE Load(t)
    BY <2>8, LoadFinds
  <2>9. CASE EmptyFile(t) \/ WriteFile(t)
    <3>1. \E h : Becomes(t, h) /\ h.pc # "empty" /\ t \in Busy /\ (~clash' => ~clash)
      <4>1. CASE EmptyFile(t)
        <5>1. Becomes(t, [handler[t] EXCEPT !.pc = "write"]) /\ clash' = clash /\ t \in Busy
          BY <4>1, Records DEF EmptyFile, Busy
        <5> QED BY <2>0, <5>1 DEF GoodHandler
      <4>2. CASE WriteFile(t)
        BY <4>2, Records DEF WriteFile, Busy, Idle, Asked
      <4> QED BY <2>9, <4>1, <4>2
    <3>2. ~clash' => Busy' \subseteq {t} /\ handler'[t].pc # "empty"
      <4>1. PICK h : Becomes(t, h) /\ h.pc # "empty" /\ t \in Busy /\ (~clash' => ~clash)
        BY <3>1
      <4>2. Busy' \subseteq Busy \cup {t} /\ handler'[t] = h
        BY <4>1, Moved
      <4> QED BY <4>1, <4>2 DEF OrderInv
    <3> QED BY <3>2 DEF FoundInv
  <2>10. CASE SaveFails(t)
    BY <2>10 DEF SaveFails, FoundInv
  <2> QED
    BY <1>1, <2>2, <2>3, <2>4, <2>5, <2>6, <2>7, <2>8, <2>9, <2>10
    DEF Handle, routes_post_handler, preset_recall_handler
<1>2. ASSUME NEW args, Boot(args) PROVE FoundInv'
  BY <1>2 DEF Boot, FoundInv, Busy, Idle, Asked
<1>3. CASE UNCHANGED vars
  BY <1>3 DEF vars, FoundInv, Busy, load_persisted_state
<1> QED
  BY <1>1, <1>2, <1>3 DEF Next, Exec, Restart

KeepInv ==
  /\ HandlerInv /\ LockInv /\ FileInv /\ MemoryInv /\ HistoryInv
  /\ OrderInv /\ RequestInv /\ KeptInv /\ FoundInv

LEMMA InitKept == Init => OrderInv /\ RequestInv /\ KeptInv /\ FoundInv
<1> SUFFICES ASSUME Init PROVE OrderInv /\ RequestInv /\ KeptInv /\ FoundInv
  OBVIOUS
<1>1. Busy = {} /\ Part("labels") = {} /\ \A t \in Threads : ~SavesRoutes(handler[t])
  BY DEF Init, Busy, Part, SavesRoutes, Idle, Asked
<1>2. \A s : Kept(s) => s = DefaultState
  BY <1>1 DEF Init, Kept, load_persisted_state
<1>3. DefaultState.labels = <<>> /\ DefaultState.routes = {}
  BY DEF DefaultState
<1>4. KeptInv
  BY <1>2, <1>3 DEF Init, KeptInv
<1> QED
  BY <1>1, <1>4 DEF OrderInv, RequestInv, FoundInv

LEMMA KeptAlways == Spec => []KeepInv
<1>1. Init => KeepInv
  BY InitHandler, InitLock, InitTypes, InitKept DEF KeepInv
<1>2. KeepInv /\ [Next]_vars => KeepInv'
  BY NextHandler, NextLock, NextFile, NextMemory, NextHistory, NextOrder, NextRequest, NextKept,
     NextFound
  DEF KeepInv
<1> QED
  BY <1>1, <1>2, PTL DEF Spec

\* When no save is under way, the labels in the file are those in memory.
LEMMA LabelsKept ==
  ASSUME KeepInv, Saving = {}, ~clash
  PROVE  Busy = {} /\ Fit(load_persisted_state.labels, engine.channels) = labels
<1>1. Busy = {} /\ ~Loading("labels")
  BY DEF Saving, Busy, Loading
<1>2. Kept(load_persisted_state)
  BY <1>1 DEF Kept
<1> QED
  BY <1>1, <1>2 DEF KeepInv, KeptInv

\* So they are in the middle of a save of other parts, until it empties the file.
LEMMA LabelsInFile ==
  ASSUME KeepInv, ~clash,
         \A t \in Threads : handler[t].pc # "write" /\ handler[t].part # "labels"
  PROVE  Fit(load_persisted_state.labels, engine.channels) = labels
<1>1. ~Loading("labels")
  BY DEF Loading
<1>2. CASE Busy = {}
  <2>1. Kept(load_persisted_state)
    BY <1>2 DEF Kept
  <2> QED BY <1>1, <2>1 DEF KeepInv, KeptInv
<1>3. ASSUME NEW t \in Busy PROVE Fit(load_persisted_state.labels, engine.channels) = labels
  <2>1. Kept(copy[t])
    BY <1>3 DEF Kept
  <2>2. Fit(copy[t].labels, engine.channels) = labels
    BY <1>1, <2>1 DEF KeepInv, KeptInv
  <2>3. copy[t].labels = load_persisted_state.labels
    BY <1>3 DEF KeepInv, FoundInv, Busy
  <2> QED BY <2>2, <2>3
<1> QED
  BY <1>2, <1>3

\* Whatever handlers, failures and restarts came before: at rest, the file has
\* the labels and the valid routes that are in memory.
THEOREM SavedIsShownCorrect == Spec => []SavedIsShown
<1>1. ASSUME KeepInv PROVE SavedIsShown
  <2> DEFINE saved == load_persisted_state
  <2> SUFFICES ASSUME Patching \cup Saving = {}, rebuilds = {}, ~clash
               PROVE  /\ Fit(saved.labels, engine.channels) = labels
                      /\ ValidRoutes(saved.routes, engine.channels)
                           = ValidRoutes(routes, engine.channels)
    BY DEF SavedIsShown
  <2>1. Busy = {} /\ Fit(saved.labels, engine.channels) = labels
    BY <1>1, LabelsKept
  <2>2. ~Loading("routes") /\ NoApply
    BY <2>1 DEF Saving, Loading, NoApply
  <2>3. Kept(saved)
    BY <2>1 DEF Kept
  <2> HIDE DEF saved
  <2> QED BY <1>1, <2>1, <2>2, <2>3 DEF KeepInv, KeptInv
<1> QED
  BY <1>1, KeptAlways, PTL

\* A restart, of its own or by an apply, gives each channel the label it had, also
\* in the middle of a save of routes or settings, or gives none of them one, when
\* it finds the file emptied.
THEOREM LabelsSurviveCorrect == Spec => LabelsSurvive
<1> DEFINE list == load_persisted_state.labels
           Keeps == \A ch \in DOMAIN labels \cap DOMAIN labels' : labels'[ch] = labels[ch]
           Loses == /\ \E t \in Threads : handler[t].pc = "write"
                    /\ \A ch \in DOMAIN labels' : labels'[ch] = DefaultLabel
<1>1. ASSUME KeepInv, Exec \/ Restart, ~clash, \A t \in Threads : handler[t].part # "labels"
      PROVE  Keeps \/ Loses
  <2>1. PICK n : labels' = Fit(list, n)
    BY <1>1 DEF Exec, Restart, Boot
  <2>2. CASE \E t \in Threads : handler[t].pc = "write"
    <3>1. file = Empty
      BY <1>1, <2>2 DEF KeepInv, OrderInv, Busy
    <3>2. list = <<>>
      BY <3>1 DEF load_persisted_state, DefaultState
    <3> HIDE DEF list
    <3>3. \A ch \in DOMAIN labels' : labels'[ch] = DefaultLabel
      BY <2>1, <3>2 DEF Fit
    <3> QED BY <2>2, <3>3
  <2>3. CASE \A t \in Threads : handler[t].pc # "write"
    <3>1. Fit(list, engine.channels) = labels
      BY <1>1, <2>3, LabelsInFile
    <3> HIDE DEF list
    <3> QED BY <2>1, <3>1 DEF Fit
  <2> QED BY <2>2, <2>3
<1>2. KeepInv =>
        ((Exec \/ Restart) /\ ~clash /\ (\A t \in Threads : handler[t].part # "labels") =>
           Keeps \/ Loses)
  BY <1>1
<1> QED
  BY <1>2, KeptAlways, PTL DEF LabelsSurvive

\* The process an apply starts has the channels and the remotes of that apply.
THEOREM ApplyTakesEffectCorrect == Spec => ApplyTakesEffect
<1>1. ASSUME KeepInv, NEW setup \in rebuilds, Exec, rebuilds = {setup}, Saving = {}, ~clash
      PROVE  engine' = setup
  <2> DEFINE saved == load_persisted_state
  <2>1. Boot(setup)
    BY <1>1 DEF Exec
  <2>2. setup \in Setup /\ setup # None
    BY <1>1, ConfigStoreAssumption DEF KeepInv, FileInv
  <2>3. setup = [remotes |-> setup.remotes, channels |-> setup.channels]
    BY <2>2 DEF Setup
  <2>4. saved.remotes = setup.remotes
    <3>1. Busy = {}
      BY <1>1, LabelsKept
    <3>2. Kept(saved) /\ NoApply
      BY <3>1 DEF Kept, NoApply
    <3> HIDE DEF saved
    <3> QED BY <1>1, <3>2 DEF KeepInv, KeptInv
  <2>5. setup.remotes = <<>> => FirstName(setup.remotes) = None
    BY DEF FirstName, active_remotes
  <2>6. engine'.channels = setup.channels /\ engine'.remotes = setup.remotes
        /\ engine' = [remotes |-> engine'.remotes, channels |-> engine'.channels]
    BY <2>1, <2>2, <2>4, <2>5 DEF Boot
  <2> QED BY <2>3, <2>6
<1>2. KeepInv =>
        \A setup \in rebuilds :
          Exec /\ rebuilds = {setup} /\ Saving = {} /\ ~clash => engine' = setup
  BY <1>1
<1> QED
  BY <1>2, KeptAlways, PTL DEF ApplyTakesEffect
-----------------------------------------------------------------------------
(* Routes and the remotes they belong to                                   *)

\* The route of a remote's channel to an output.
At(j, ch, o) == Wire(PeerCh(j, ch), Output(o))

LEMMA WireFields ==
  ASSUME NEW j, NEW ch, NEW o
  PROVE  /\ At(j, ch, o).source.kind = "peer" /\ At(j, ch, o).source.remote = j
         /\ At(j, ch, o).source.ch = ch /\ At(j, ch, o).destination = Output(o)
         /\ \A i : [At(j, ch, o) EXCEPT !.source.remote = i] = At(i, ch, o)
  BY DEF At, Wire, PeerCh

LEMMA RouteIsWire ==
  ASSUME NEW r \in Route, NEW o, r.source.kind = "peer", r.destination = Output(o)
  PROVE  r = At(r.source.remote, r.source.ch, o)
<1>1. r = [source |-> r.source, destination |-> r.destination] /\ r.source \in Endpoint
  BY DEF Route
<1>2. r.source = [kind |-> r.source.kind, remote |-> r.source.remote, ch |-> r.source.ch]
  BY <1>1 DEF Endpoint
<1> QED
  BY <1>1, <1>2 DEF At, Wire, PeerCh

\* A move takes the routes of one remote to another, and leaves the others.
LEMMA MovedWire ==
  ASSUME NEW list, list \subseteq Route, NEW move, NEW j, NEW ch, NEW o
  PROVE  At(j, ch, o) \in Renumber(list, move)
           <=> \/ j = move.to /\ At(move.from, ch, o) \in list
               \/ j # move.from /\ At(j, ch, o) \in list
<1> DEFINE Image(r) == IF r.source.kind = "peer" /\ r.source.remote = move.from
                       THEN [r EXCEPT !.source.remote = move.to] ELSE r
<1>0. Renumber(list, move) = {Image(r) : r \in list}
  BY DEF Renumber
<1>1. ASSUME At(j, ch, o) \in Renumber(list, move)
      PROVE  \/ j = move.to /\ At(move.from, ch, o) \in list
             \/ j # move.from /\ At(j, ch, o) \in list
  <2>1. PICK r \in list : At(j, ch, o) = Image(r)
    BY <1>0, <1>1
  <2>2. CASE r.source.kind = "peer" /\ r.source.remote = move.from
    <3>1. At(j, ch, o) = [r EXCEPT !.source.remote = move.to]
      BY <2>1, <2>2
    <3>2. r \in Route /\ r.source \in Endpoint
      BY DEF Route
    <3>3. /\ [r EXCEPT !.source.remote = move.to].source.remote = move.to
          /\ [r EXCEPT !.source.remote = move.to].source.ch = r.source.ch
          /\ [r EXCEPT !.source.remote = move.to].destination = r.destination
      BY <3>2 DEF Route, Endpoint
    <3>4. move.to = j /\ r.source.ch = ch /\ r.destination = Output(o)
      <4>1. /\ At(j, ch, o).source.remote = j /\ At(j, ch, o).source.ch = ch
            /\ At(j, ch, o).destination = Output(o)
        BY WireFields
      <4> QED BY <3>1, <3>3, <4>1
    <3>5. r = At(move.from, ch, o)
      BY <2>2, <3>2, <3>4, RouteIsWire
    <3> QED BY <3>4, <3>5
  <2>3. CASE ~(r.source.kind = "peer" /\ r.source.remote = move.from)
    <3>1. r = At(j, ch, o)
      BY <2>1, <2>3
    <3> QED BY <2>3, <3>1, WireFields
  <2> QED BY <2>2, <2>3
<1>2. ASSUME j = move.to, At(move.from, ch, o) \in list
      PROVE  At(j, ch, o) \in Renumber(list, move)
  <2>1. Image(At(move.from, ch, o)) = At(j, ch, o)
    BY <1>2, WireFields
  <2> HIDE DEF Image
  <2> QED BY <1>0, <1>2, <2>1
<1>3. ASSUME j # move.from, At(j, ch, o) \in list
      PROVE  At(j, ch, o) \in Renumber(list, move)
  <2>1. Image(At(j, ch, o)) = At(j, ch, o)
    BY <1>3, WireFields
  <2> HIDE DEF Image
  <2> QED BY <1>0, <1>3, <2>1
<1> QED
  BY <1>1, <1>2, <1>3

\* Two lists of remotes as an apply compares them: those that are in both by name,
\* each with a name and an index of its own, and the moves between them.
Compared(old, new, moves) ==
  /\ \A r \in old \cup new : r.index \in Nat
  /\ \A q \in old : \E r \in new : r.name = q.name
  /\ \A q, s \in old : q.name = s.name \/ q.index = s.index => q = s
  /\ \A r, s \in new : r.name = s.name \/ r.index = s.index => r = s
  /\ \A m \in moves : \E q \in old, r \in new :
       q.name = r.name /\ q.index # r.index /\ m = [from |-> q.index, to |-> r.index]
  /\ \A q \in old, r \in new : q.name = r.name /\ q.index # r.index =>
       [from |-> q.index, to |-> r.index] \in moves

LEMMA NamedRemotes ==
  ASSUME NEW list \in Seq(Remote), NEW other \in Seq(Remote), Distinct(list)
  PROVE  /\ \A r \in Named(list, other) : r.index \in Nat
         /\ \A q, s \in Named(list, other) : q.name = s.name \/ q.index = s.index => q = s
<1>1. ASSUME NEW i \in DOMAIN list PROVE list[i].index \in Nat
  <2>1. list[i] \in Remote
    BY ListDomain
  <2> QED BY <2>1 DEF Remote
<1>2. \A r \in Named(list, other) : \E i \in DOMAIN list : r = list[i]
  BY DEF Named, Range
<1> QED
  BY <1>1, <1>2 DEF Distinct

LEMMA ComparedLists ==
  ASSUME NEW old \in Seq(Remote), NEW new \in Seq(Remote), Distinct(old), Distinct(new)
  PROVE  Compared(Named(old, new), Named(new, old), Moves(old, new))
<1> DEFINE A == Named(old, new)
           B == Named(new, old)
<1>1. (\A r \in A \cup B : r.index \in Nat)
      /\ (\A q, s \in A : q.name = s.name \/ q.index = s.index => q = s)
      /\ (\A r, s \in B : r.name = s.name \/ r.index = s.index => r = s)
  BY NamedRemotes
<1>2. ASSUME NEW i \in DOMAIN old, NEW k \in DOMAIN new, old[i].name = new[k].name
      PROVE  old[i] \in A /\ new[k] \in B
  BY <1>2 DEF Named, Range
<1>3. ASSUME NEW q \in A
      PROVE  \E i \in DOMAIN old, k \in DOMAIN new : q = old[i] /\ new[k].name = q.name
  BY DEF Named, Range
<1>4. \A q \in A : \E r \in B : r.name = q.name
  BY <1>2, <1>3
<1>5. ASSUME NEW m \in Moves(old, new)
      PROVE  \E q \in A, r \in B :
               q.name = r.name /\ q.index # r.index /\ m = [from |-> q.index, to |-> r.index]
  <2>1. PICK p \in (DOMAIN old) \X (DOMAIN new) :
          /\ old[p[1]].name = new[p[2]].name /\ old[p[1]].index # new[p[2]].index
          /\ m = [from |-> old[p[1]].index, to |-> new[p[2]].index]
    BY DEF Moves
  <2>2. p[1] \in DOMAIN old /\ p[2] \in DOMAIN new
    OBVIOUS
  <2>3. old[p[1]] \in A /\ new[p[2]] \in B
    BY <1>2, <2>1, <2>2
  <2> QED BY <2>1, <2>3
<1>6. ASSUME NEW q \in A, NEW r \in B, q.name = r.name, q.index # r.index
      PROVE  [from |-> q.index, to |-> r.index] \in Moves(old, new)
  <2>1. PICK i \in DOMAIN old, k \in DOMAIN new : q = old[i] /\ r = new[k]
    BY DEF Named, Range
  <2>2. <<i, k>> \in (DOMAIN old) \X (DOMAIN new) /\ <<i, k>>[1] = i /\ <<i, k>>[2] = k
    OBVIOUS
  <2> QED BY <1>6, <2>1, <2>2 DEF Moves
<1> HIDE DEF A, B
<1>7. Compared(A, B, Moves(old, new))
  BY <1>1, <1>4, <1>5, <1>6 DEF Compared
<1> QED
  BY <1>7 DEF A, B

\* After so many moves in this order: where the routes of an index are.
Renumbered(h, n, order, before, after) ==
  /\ \A j, ch, o : At(j, ch, o) \in after <=> \E x \in Nat : h[x] = j /\ At(x, ch, o) \in before
  /\ \A x \in Nat : (\A i \in 1..n : order[i].from # x) => h[x] = x
  /\ \A i \in 1..n : \E l \in 1..n : h[order[i].from] = order[l].to
  /\ \/ \A i \in 1..n : h[order[i].from] = order[i].to
     \/ \E i, l \in 1..n : order[i].to = order[l].from

\* An order of moves, each from an index of its own.
OneByOne(order, n) ==
  /\ \A i \in 1..n : order[i].from \in Nat /\ order[i].to \in Nat /\ order[i].from # order[i].to
  /\ \A i, l \in 1..n : i # l => order[i].from # order[l].from

LEMMA NoMoves ==
  ASSUME NEW list, list \subseteq Route, NEW order
  PROVE  Renumbered([x \in Nat |-> x], 0, order, list, list)
<1>1. ASSUME NEW j, NEW ch, NEW o, At(j, ch, o) \in list PROVE j \in Nat
  <2>1. At(j, ch, o) \in Route /\ At(j, ch, o).source.remote = j
    BY <1>1, WireFields
  <2> QED BY <2>1 DEF Route, Endpoint
<1>2. 1..0 = {}
  OBVIOUS
<1> QED
  BY <1>1, <1>2 DEF Renumbered

LEMMA OneMoveMore ==
  ASSUME NEW n \in Nat, NEW k \in 1..n, NEW order, OneByOne(order, n),
         NEW h \in [Nat -> Nat], NEW list, NEW before, before \subseteq Route,
         Renumbered(h, k - 1, order, list, before)
  PROVE  \E g \in [Nat -> Nat] : Renumbered(g, k, order, list, Renumber(before, order[k]))
<1> DEFINE m == order[k]
           g == [x \in Nat |-> IF h[x] = m.from THEN m.to ELSE h[x]]
<1>0. k \in Nat /\ k - 1 \in Nat /\ 1..k = (1..(k - 1)) \cup {k} /\ k \notin 1..(k - 1) /\ 1..k \subseteq 1..n
  OBVIOUS
<1>1. m.from \in Nat /\ m.to \in Nat /\ m.from # m.to
  BY DEF OneByOne
<1>2. g \in [Nat -> Nat]
  BY <1>1
<1>3. \A i \in 1..(k - 1) : order[i].from # m.from /\ order[i].from \in Nat
  BY <1>0 DEF OneByOne
<1>4. h[m.from] = m.from
  BY <1>1, <1>3 DEF Renumbered
<1>5. ASSUME NEW x \in Nat PROVE g[x] = IF h[x] = m.from THEN m.to ELSE h[x]
  OBVIOUS
<1> HIDE DEF g, m
<1>6. ASSUME NEW j, NEW ch, NEW o
      PROVE  At(j, ch, o) \in Renumber(before, m)
               <=> \E x \in Nat : g[x] = j /\ At(x, ch, o) \in list
  <2>1. At(j, ch, o) \in Renumber(before, m)
          <=> \/ j = m.to /\ At(m.from, ch, o) \in before
              \/ j # m.from /\ At(j, ch, o) \in before
    BY MovedWire
  <2>2. At(j, ch, o) \in before <=> \E x \in Nat : h[x] = j /\ At(x, ch, o) \in list
    BY DEF Renumbered
  <2>3. At(m.from, ch, o) \in before <=> \E x \in Nat : h[x] = m.from /\ At(x, ch, o) \in list
    BY DEF Renumbered
  <2> QED BY <1>1, <1>5, <2>1, <2>2, <2>3
<1>7. ASSUME NEW x \in Nat, \A i \in 1..k : order[i].from # x PROVE g[x] = x
  <2>1. h[x] = x
    BY <1>0, <1>7 DEF Renumbered
  <2>2. m.from # x
    BY <1>0, <1>7 DEF m
  <2> QED BY <1>5, <2>1, <2>2
<1>8. g[m.from] = m.to
  BY <1>1, <1>4, <1>5
<1>9. ASSUME NEW i \in 1..(k - 1), NEW l \in 1..(k - 1), h[order[i].from] = order[l].to
      PROVE  g[order[i].from] = IF order[l].to = m.from THEN m.to ELSE order[l].to
  BY <1>3, <1>5, <1>9
<1>10. ASSUME NEW i \in 1..k PROVE \E l \in 1..k : g[order[i].from] = order[l].to
  <2>1. CASE i = k
    BY <1>0, <1>8, <2>1 DEF m
  <2>2. CASE i # k
    <3>1. i \in 1..(k - 1)
      BY <1>0, <2>2
    <3>2. PICK l \in 1..(k - 1) : h[order[i].from] = order[l].to
      BY <3>1 DEF Renumbered
    <3>3. g[order[i].from] = m.to \/ g[order[i].from] = order[l].to
      BY <1>9, <3>1, <3>2
    <3> QED BY <1>0, <3>3 DEF m
  <2> QED BY <2>1, <2>2
<1>11. ASSUME \A i, l \in 1..k : order[i].to # order[l].from, NEW i \in 1..k
       PROVE  g[order[i].from] = order[i].to
  <2>1. CASE i = k
    BY <1>8, <2>1 DEF m
  <2>2. CASE i # k
    <3>1. i \in 1..(k - 1)
      BY <1>0, <2>2
    <3>2. h[order[i].from] = order[i].to
      <4>1. \A u, v \in 1..(k - 1) : order[u].to # order[v].from
        BY <1>0, <1>11
      <4> QED BY <3>1, <4>1 DEF Renumbered
    <3>3. order[i].to # m.from
      BY <1>0, <1>11 DEF m
    <3> QED BY <1>9, <3>1, <3>2, <3>3
  <2> QED BY <2>1, <2>2
<1>12. \/ \A i \in 1..k : g[order[i].from] = order[i].to
       \/ \E i, l \in 1..k : order[i].to = order[l].from
  BY <1>11
<1>13. \A j, ch, o : At(j, ch, o) \in Renumber(before, m)
                       <=> \E x \in Nat : g[x] = j /\ At(x, ch, o) \in list
  BY <1>6
<1>14. \A x \in Nat : (\A i \in 1..k : order[i].from # x) => g[x] = x
  BY <1>7
<1>15. \A i \in 1..k : \E l \in 1..k : g[order[i].from] = order[l].to
  BY <1>10
<1>16. Renumbered(g, k, order, list, Renumber(before, m))
  BY <1>12, <1>13, <1>14, <1>15, Zenon DEF Renumbered
<1> QED
  BY <1>2, <1>16 DEF m

\* Where the routes of an index are after a migration.
LEMMA MigratedWires ==
  ASSUME NEW list, list \subseteq Route, NEW n \in Nat, NEW order, OneByOne(order, n),
         DOMAIN order = 1..n
  PROVE  \E h \in [Nat -> Nat] : Renumbered(h, n, order, list, Followed(list, order))
<1>1. PICK lists : Stages(lists, list, n, order)
  BY FoldSteps
<1>2. /\ lists[0] = list /\ lists[n] = Followed(list, order)
      /\ \A k \in 1..n : lists[k] = Renumber(lists[k - 1], order[k])
  BY <1>1 DEF Stages
<1> DEFINE Good(k) == /\ lists[k] \subseteq Route
                      /\ \E h \in [Nat -> Nat] : Renumbered(h, k, order, list, lists[k])
           Bad     == {k \in 0..n : ~Good(k)}
<1>3. Good(0)
  <2>1. [x \in Nat |-> x] \in [Nat -> Nat]
    OBVIOUS
  <2> QED BY <1>2, <2>1, NoMoves
<1>4. ASSUME NEW k \in 1..n, Good(k - 1) PROVE Good(k)
  <2>1. lists[k] = Renumber(lists[k - 1], order[k]) /\ lists[k - 1] \subseteq Route
    BY <1>2, <1>4
  <2>2. lists[k] \subseteq Route
    <3>1. order[k].to \in Nat
      BY DEF OneByOne
    <3> QED BY <2>1, <3>1, RenumberedRoutes
  <2>3. PICK h \in [Nat -> Nat] : Renumbered(h, k - 1, order, list, lists[k - 1])
    BY <1>4
  <2>4. \E g \in [Nat -> Nat] : Renumbered(g, k, order, list, Renumber(lists[k - 1], order[k]))
    BY <2>1, <2>3, OneMoveMore
  <2> QED BY <2>1, <2>2, <2>4
<1> HIDE DEF Good
<1>5. ASSUME Bad # {} PROVE FALSE
  <2>1. Bad \subseteq Nat
    OBVIOUS
  <2>2. PICK k \in Bad : \A i \in Bad : k <= i
    BY <1>5, <2>1, LeastNumber
  <2>3. k \in 0..n /\ ~Good(k)
    OBVIOUS
  <2>4. k \in 1..n
    BY <1>3, <2>3
  <2>5. k - 1 \in 0..n /\ k - 1 < k
    BY <2>4
  <2>6. Good(k - 1)
    BY <2>2, <2>3, <2>5
  <2> QED BY <1>4, <2>3, <2>4, <2>6
<1>6. Good(n)
  <2>1. n \in 0..n
    OBVIOUS
  <2> QED BY <1>5, <2>1
<1> QED
  BY <1>2, <1>6 DEF Good

\* The moves in an order.
Ordered(order, n, moves) ==
  /\ \A i \in 1..n : order[i] \in moves
  /\ \A m \in moves : \E i \in 1..n : order[i] = m

\* What becomes of the routes, in terms of the remotes.
Mapped(A, B, before, after) ==
  \E f \in [A -> B] :
     /\ \A r \in B : \A ch, o : At(r.index, ch, o) \in after <=>
          \/ \E q \in A : f[q] = r /\ At(q.index, ch, o) \in before
          \/ At(r.index, ch, o) \in before /\ \A q \in A : q.index # r.index
     /\ \/ \A q \in A : f[q].name = q.name
        \/ \E q \in A, r \in B : q.index = r.index /\ q.name # r.name

LEMMA MappedRemotes ==
  ASSUME NEW A, NEW B, NEW moves, Compared(A, B, moves),
         NEW n \in Nat, NEW order, Ordered(order, n, moves),
         NEW h \in [Nat -> Nat], NEW list, NEW result, Renumbered(h, n, order, list, result)
  PROVE  Mapped(A, B, list, result)
<1> DEFINE f == [q \in A |-> CHOOSE r \in B : r.index = h[q.index]]
<1>1. ASSUME NEW i \in 1..n
      PROVE  \E q \in A, r \in B : /\ q.name = r.name /\ q.index # r.index
                                   /\ order[i].from = q.index /\ order[i].to = r.index
  <2>1. order[i] \in moves
    BY DEF Ordered
  <2>2. PICK q \in A, r \in B : /\ q.name = r.name /\ q.index # r.index
                                /\ order[i] = [from |-> q.index, to |-> r.index]
    BY <2>1 DEF Compared
  <2> QED BY <2>2
<1>2. ASSUME NEW q \in A, NEW r \in B, q.name = r.name, q.index # r.index
      PROVE  \E i \in 1..n : order[i].from = q.index /\ order[i].to = r.index
  <2>1. [from |-> q.index, to |-> r.index] \in moves
    BY <1>2 DEF Compared
  <2>2. PICK i \in 1..n : order[i] = [from |-> q.index, to |-> r.index]
    BY <2>1 DEF Ordered
  <2> QED BY <2>2
<1>3. ASSUME NEW q \in A, NEW r \in B, q.name = r.name, q.index = r.index
      PROVE  h[q.index] = r.index
  <2>1. ASSUME NEW i \in 1..n, order[i].from = q.index PROVE FALSE
    <3>1. PICK s \in A, u \in B : /\ s.name = u.name /\ s.index # u.index
                                  /\ order[i].from = s.index
      BY <1>1
    <3>2. s = q /\ u = r
      BY <1>3, <2>1, <3>1 DEF Compared
    <3> QED BY <1>3, <3>1, <3>2
  <2>2. q.index \in Nat
    BY DEF Compared
  <2> QED BY <1>3, <2>1, <2>2 DEF Renumbered
<1>4. ASSUME NEW q \in A PROVE \E r \in B : r.index = h[q.index]
  <2>1. PICK r \in B : r.name = q.name
    BY DEF Compared
  <2>2. CASE q.index = r.index
    BY <1>3, <2>1, <2>2
  <2>3. CASE q.index # r.index
    <3>1. PICK i \in 1..n : order[i].from = q.index
      BY <1>2, <2>1, <2>3
    <3>2. PICK l \in 1..n : h[order[i].from] = order[l].to
      BY DEF Renumbered
    <3> QED BY <1>1, <3>1, <3>2
  <2> QED BY <2>2, <2>3
<1>5. ASSUME NEW q \in A PROVE f[q] \in B /\ f[q].index = h[q.index]
  BY <1>4
<1>6. f \in [A -> B]
  BY <1>4
<1> HIDE DEF f
<1>7. ASSUME NEW q \in A, NEW r \in B PROVE f[q] = r <=> h[q.index] = r.index
  BY <1>5 DEF Compared
<1>8. ASSUME NEW x \in Nat, \A q \in A : q.index # x PROVE h[x] = x
  <2>1. \A i \in 1..n : order[i].from # x
    BY <1>1, <1>8
  <2> QED BY <2>1 DEF Renumbered
<1>9. ASSUME NEW r \in B, NEW ch, NEW o
      PROVE  At(r.index, ch, o) \in result <=>
               \/ \E q \in A : f[q] = r /\ At(q.index, ch, o) \in list
               \/ At(r.index, ch, o) \in list /\ \A q \in A : q.index # r.index
  <2>1. At(r.index, ch, o) \in result
          <=> \E x \in Nat : h[x] = r.index /\ At(x, ch, o) \in list
    BY DEF Renumbered
  <2>2. ASSUME NEW x \in Nat, h[x] = r.index, At(x, ch, o) \in list
        PROVE  \/ \E q \in A : f[q] = r /\ At(q.index, ch, o) \in list
               \/ At(r.index, ch, o) \in list /\ \A q \in A : q.index # r.index
    BY <1>7, <1>8, <2>2
  <2>3. ASSUME NEW q \in A, f[q] = r, At(q.index, ch, o) \in list
        PROVE  \E x \in Nat : h[x] = r.index /\ At(x, ch, o) \in list
    <3>1. q.index \in Nat /\ h[q.index] = r.index
      BY <1>7, <2>3 DEF Compared
    <3> QED BY <2>3, <3>1
  <2>4. ASSUME At(r.index, ch, o) \in list, \A q \in A : q.index # r.index
        PROVE  \E x \in Nat : h[x] = r.index /\ At(x, ch, o) \in list
    <3>1. r.index \in Nat
      BY DEF Compared
    <3>2. h[r.index] = r.index
      BY <1>8, <2>4, <3>1
    <3> QED BY <2>4, <3>1, <3>2
  <2> QED BY <2>1, <2>2, <2>3, <2>4
<1>10. CASE \E i, l \in 1..n : order[i].to = order[l].from
  <2>1. PICK i \in 1..n, l \in 1..n : order[i].to = order[l].from
    BY <1>10
  <2>2. PICK q \in A, r \in B : /\ q.name = r.name /\ q.index # r.index
                                /\ order[i].from = q.index /\ order[i].to = r.index
    BY <1>1
  <2>3. PICK s \in A, u \in B : /\ s.name = u.name /\ s.index # u.index
                                /\ order[l].from = s.index /\ order[l].to = u.index
    BY <1>1
  <2>4. s.index = r.index /\ s.name # r.name
    <3>1. s.index = r.index
      BY <2>1, <2>2, <2>3
    <3>2. s.name = r.name => s = q
      BY <2>2 DEF Compared
    <3> QED BY <2>2, <3>1, <3>2
  <2> QED BY <1>6, <1>9, <2>4 DEF Mapped
<1>11. CASE \A i \in 1..n : h[order[i].from] = order[i].to
  <2>1. ASSUME NEW q \in A PROVE f[q].name = q.name
    <3>1. PICK r \in B : r.name = q.name
      BY DEF Compared
    <3>2. h[q.index] = r.index
      <4>1. CASE q.index = r.index
        BY <1>3, <3>1, <4>1
      <4>2. CASE q.index # r.index
        BY <1>2, <1>11, <3>1, <4>2
      <4> QED BY <4>1, <4>2
    <3>3. f[q] = r
      BY <1>7, <3>2
    <3> QED BY <3>1, <3>3
  <2> QED BY <1>6, <1>9, <2>1 DEF Mapped
<1> QED
  BY <1>10, <1>11 DEF Renumbered

\* A migration of the routes of distinct remotes.
Migrates(list, old, new, result) ==
  /\ list \subseteq Route /\ old \in Seq(Remote) /\ new \in Seq(Remote)
  /\ Distinct(old) /\ Distinct(new)
  /\ result \in Migrations(list, old, new)

LEMMA RoutesMovedWhole ==
  ASSUME NEW list, NEW old, NEW new, NEW result, Migrates(list, old, new, result)
  PROVE  MovedWhole(old, new, list, result)
<1>1. /\ list \subseteq Route /\ old \in Seq(Remote) /\ new \in Seq(Remote)
      /\ Distinct(old) /\ Distinct(new) /\ result \in Migrations(list, old, new)
  BY DEF Migrates
<1> DEFINE A == Named(old, new)
           B == Named(new, old)
           moves == Moves(old, new)
<1>2. Compared(A, B, moves)
  BY <1>1, ComparedLists
<1>3. PICK order \in SetToSeqs(Moves(old, new)) : result = Followed(list, order)
  BY <1>1 DEF Migrations, Followed
<1>4. PICK n \in Nat : /\ DOMAIN order = 1..n
                       /\ \A i \in 1..n : order[i] \in moves
                       /\ \A i, k \in 1..n : i # k => order[i] # order[k]
                       /\ \A m \in moves : \E i \in 1..n : order[i] = m
  BY <1>1, OrderOfMoves
<1> HIDE DEF A, B, moves
<1>5. OneByOne(order, n)
  <2>1. ASSUME NEW m \in moves
        PROVE  \E q \in A, r \in B : /\ q.name = r.name /\ q.index # r.index
                                     /\ q.index \in Nat /\ r.index \in Nat
                                     /\ m = [from |-> q.index, to |-> r.index]
    BY <1>2 DEF Compared
  <2>2. \A m \in moves : m.from \in Nat /\ m.to \in Nat /\ m.from # m.to
    BY <2>1
  <2>3. ASSUME NEW m \in moves, NEW k \in moves, m.from = k.from PROVE m = k
    <3>1. PICK q \in A, r \in B : q.name = r.name /\ m = [from |-> q.index, to |-> r.index]
      BY <2>1
    <3>2. PICK s \in A, u \in B : s.name = u.name /\ k = [from |-> s.index, to |-> u.index]
      BY <2>1
    <3>3. q.index = s.index
      BY <2>3, <3>1, <3>2
    <3>4. q = s /\ r = u
      BY <1>2, <3>1, <3>2, <3>3 DEF Compared
    <3> QED BY <3>1, <3>2, <3>4
  <2> QED BY <1>4, <2>2, <2>3 DEF OneByOne
<1>6. PICK h \in [Nat -> Nat] : Renumbered(h, n, order, list, result)
  BY <1>1, <1>3, <1>4, <1>5, MigratedWires
<1>7. Mapped(A, B, list, result)
  <2>1. Ordered(order, n, moves)
    BY <1>4 DEF Ordered
  <2> QED BY <1>2, <1>6, <2>1, MappedRemotes
<1> QED
  BY <1>7 DEF Mapped, MovedWhole, At, A, B

\* Only a handler that loads goes on from there.
LEMMA OnlyLoad ==
  ASSUME HandlerInv, [Next]_vars, NEW t \in Threads,
         handler[t].pc = "load", handler'[t].pc = "empty"
  PROVE  Load(t)
<1>1. ASSUME NEW u \in Threads, Handle(u) PROVE Load(t)
  <2>1. CASE u = t
    <3>1. ~Request(t)
      BY DEF Request
    <3>2. ASSUME WriteFile(t) \/ SaveFails(t) PROVE FALSE
      BY <3>2 DEF WriteFile, SaveFails
    <3> QED BY <1>1, <2>1, <3>1, <3>2
            DEF Handle, routes_post_handler, preset_recall_handler, preset_save_handler,
                local_labels_post_handler, setup_apply_handler, StoreMask, ReplaceList, EmptyFile
  <2>2. CASE u # t
    <3>1. handler' = handler \/ \E h : Becomes(u, h)
      BY <1>1, Records DEF Handle, routes_post_handler, preset_recall_handler, preset_save_handler
    <3>2. handler'[t] = handler[t]
      BY <2>2, <3>1, Frame
    <3> QED BY <3>2
  <2> QED BY <2>1, <2>2
<1>2. ASSUME Exec \/ Restart PROVE FALSE
  <2>1. handler'[t].pc = "idle"
    BY <1>2 DEF Exec, Restart, Boot, Idle, Asked
  <2> QED BY <2>1
<1>3. ASSUME UNCHANGED vars PROVE FALSE
  BY <1>3 DEF vars
<1> QED
  BY <1>1, <1>2, <1>3 DEF Next

\* An apply, whatever remotes it adds, drops, reorders or swaps and in whatever
\* order the moves are made, moves the routes of each remote as a whole to one that
\* kept its name: to itself, unless one moves to an index that another one had.
THEOREM MigrationKeepsNamesCorrect == Spec => MigrationKeepsNames
<1> DEFINE saved == load_persisted_state
           new(t) == handler[t].setup.remotes
           Applies(t) == /\ handler[t].pc = "load" /\ handler[t].part = "setup"
                         /\ handler'[t].pc = "empty"
                         /\ Distinct(saved.remotes) /\ Distinct(new(t))
           Whole(t) == MovedWhole(saved.remotes, new(t), saved.routes, copy'[t].routes)
<1>1. ASSUME HandlerInv, FileInv, [Next]_vars, NEW t \in Threads, Applies(t) PROVE Whole(t)
  <2>1. Load(t) /\ handler[t].part = "setup"
    BY <1>1, OnlyLoad
  <2>2. saved \in Settings /\ handler[t].setup \in Setup
    BY <1>1, <2>1, LoadedGood DEF FileInv, GoodRequest
  <2>3. PICK list : list = saved.routes
    OBVIOUS
  <2>4. PICK old : old = saved.remotes
    OBVIOUS
  <2>5. PICK later : later = new(t)
    OBVIOUS
  <2>6. PICK result : result = copy'[t].routes
    OBVIOUS
  <2>7. old \in Seq(Remote) /\ list \subseteq Route /\ later \in Seq(Remote)
    BY <2>2, <2>3, <2>4, <2>5, ConfigStoreAssumption DEF Settings, Setup
  <2>8. result \in Migrations(list, old, later)
    BY <1>1, <2>1, <2>3, <2>4, <2>5, <2>6 DEF Load, Changed, Applied, FileInv
  <2>9. Migrates(list, old, later, result)
    BY <1>1, <2>4, <2>5, <2>7, <2>8 DEF Migrates
  <2>10. MovedWhole(old, later, list, result)
    BY <2>9, RoutesMovedWhole
  <2> QED BY <2>3, <2>4, <2>5, <2>6, <2>10
<1>2. HandlerInv /\ FileInv /\ [Next]_vars => \A t \in Threads : Applies(t) => Whole(t)
  BY <1>1
<1> QED
  BY <1>2, TypesAlways, PTL DEF MigrationKeepsNames, Spec

=============================================================================
