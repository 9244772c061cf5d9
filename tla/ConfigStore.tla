---------------------------- MODULE ConfigStore ----------------------------
(***************************************************************************)
(* The settings of a device: the handlers of the web UI (web.rs) that      *)
(* change them, the state they share (WebState), the file they are kept in *)
(* (persistence.rs) and the restarts that read it (main.rs, engine.rs).    *)
(*                                                                         *)
(* The web server runs handlers on several threads.  A handler stores the  *)
(* masks one after the other, replaces the list of routes under its lock,  *)
(* and saves by loading the file, changing its part of it and writing it   *)
(* back: the file is emptied and then written.  Every save of the program  *)
(* is such a load and write, and only those of routes exclude each other,  *)
(* because the lock of the list is held until the file is written.         *)
(*                                                                         *)
(* Of the settings the model has the list of remotes, the channel count,   *)
(* the channel labels and the routes.                                      *)
(***************************************************************************)
EXTENDS Routing, SequencesExt

CONSTANTS
  None,
  Empty,        \* a file without content, or none
  Torn,         \* one in which the texts of two writes overlap
  Names,        \* names of remotes
  Threads,      \* handlers that run at the same time
  Labels,       \* texts of channel labels
  DefaultLabel, \* local_channel_label
  LabelLists,   \* lists of labels the UI posts
  RouteLists,   \* sets of routes the UI posts
  RemoteLists,  \* lists of remotes it applies
  Channels,     \* channel counts it applies
  MaxRequests   \* bound: requests

Remote == [name : Names, index : Nat, enabled : BOOLEAN]

\* What the UI applies, and what the file has room for.
Setup    == [remotes : RemoteLists, channels : Channels]
Settings == [remotes : Seq(Remote), channels : Channels \cup {None},
             labels : Seq(Labels), routes : SUBSET Route]

ASSUME ConfigStoreAssumption ==
  /\ None \notin Threads /\ None \notin Setup /\ Empty \notin Settings /\ Torn \notin Settings
  /\ DefaultLabel \in Labels /\ LabelLists \subseteq Seq(Labels)
  /\ \A list \in RouteLists : list \subseteq Route
  /\ RemoteLists \subseteq Seq(Remote)
  /\ Channels \subseteq 1..MaxChannels /\ None \notin Channels /\ 2 \in Channels
  /\ MaxRequests \in Nat

VARIABLES
  file,      \* the contents, or one of the two above
  engine,    \* remotes and channels the process started with
  masks,     \* output_route_masks and tx_tone_source_for_send, by slot
  routes,    \* the list the UI shows
  labels,    \* local_labels
  preset,    \* a preset, or None
  lock,      \* the handler that holds the lock of the list, or None
  rebuilds,  \* settings of the processes that are about to replace this one
  handler,   \* by thread: where it is and its request
  copy,      \* by thread: what it loaded, changed
  requests,  \* bound: how many there were
  clash,     \* history: a save was loaded while another one was under way, or failed,
             \* or labels were posted before the last ones were saved
  mixed      \* history: two handlers stored masks at the same time

memory == <<engine, masks, routes, labels, preset>>
vars   == <<file, engine, masks, routes, labels, preset, lock, rebuilds, handler,
            copy, requests, clash, mixed>>

\* A request: the part of the file it changes, where its handler begins and
\* what it asks for.
Asked(part, pc, list, texts, setup) ==
  [part |-> part, pc |-> pc, slot |-> 0, routes |-> list, labels |-> texts, setup |-> setup]
Idle == Asked("none", "idle", None, None, None)

Patching == {t \in Threads : handler[t].pc = "masks"}
Saving   == {t \in Threads : handler[t].pc \in {"load", "empty", "write"}}

\* Labels as this many channels have them.
Fit(list, channels) ==
  [ch \in 1..channels |-> IF ch <= Len(list) THEN list[ch] ELSE DefaultLabel]

-----------------------------------------------------------------------------
(* The file                                                                *)

DefaultState == [remotes |-> <<>>, channels |-> None, labels |-> <<>>, routes |-> {}]

load_persisted_state == IF file \in {Empty, Torn} THEN DefaultState ELSE file

\* --remote-name: the first remote that is enabled.
FirstName(remotes) ==
  IF active_remotes(remotes) = {} THEN None
  ELSE remotes[CHOOSE i \in DOMAIN remotes :
                 remotes[i].enabled /\ \A j \in 1..(i - 1) : ~remotes[j].enabled].name

\* Mutant: the remote the arguments name is used also when the file has some.
BootNamed(args) ==
  LET saved    == load_persisted_state
      channels == IF args # None THEN args.channels
                  ELSE IF saved.channels # None THEN saved.channels ELSE 2
      named    == IF args = None THEN None ELSE FirstName(args.remotes)
      remotes  == IF named = None THEN saved.remotes
                  ELSE <<[name |-> named, index |-> 0, enabled |-> TRUE]>>
      valid    == ValidRoutes(saved.routes, channels)
  IN  /\ engine' = [remotes |-> remotes, channels |-> channels]
      /\ labels' = Fit(saved.labels, channels)
      /\ routes' = valid
      /\ masks'  = [slot \in MaskSlots |-> Mask(valid, slot, channels)]
      /\ preset' = None /\ lock' = None /\ rebuilds' = {}
      /\ handler' = [t \in Threads |-> Idle] /\ copy' = [t \in Threads |-> None]
      /\ clash' = FALSE /\ mixed' = FALSE
      /\ UNCHANGED <<file, requests>>

\* A process starts: its arguments win over the file's channel count, and the
\* remote they name is used when the file has none.
Boot(args) ==
  LET saved    == load_persisted_state
      channels == IF args # None THEN args.channels
                  ELSE IF saved.channels # None THEN saved.channels ELSE 2
      named    == IF args = None THEN None ELSE FirstName(args.remotes)
      remotes  == IF saved.remotes # <<>> \/ named = None THEN saved.remotes
                  ELSE <<[name |-> named, index |-> 0, enabled |-> TRUE]>>
      valid    == ValidRoutes(saved.routes, channels)
  IN  /\ engine' = [remotes |-> remotes, channels |-> channels]
      /\ labels' = Fit(saved.labels, channels)
      /\ routes' = valid
      /\ masks'  = [slot \in MaskSlots |-> Mask(valid, slot, channels)]
      /\ preset' = None /\ lock' = None /\ rebuilds' = {}
      /\ handler' = [t \in Threads |-> Idle] /\ copy' = [t \in Threads |-> None]
      /\ clash' = FALSE /\ mixed' = FALSE
      /\ UNCHANGED <<file, requests>>

Init ==
  /\ file = Empty
  /\ engine = [remotes |-> <<>>, channels |-> 2]
  /\ masks = [slot \in MaskSlots |-> {}]
  /\ routes = {} /\ labels = Fit(<<>>, 2)
  /\ preset = None /\ lock = None /\ rebuilds = {}
  /\ handler = [t \in Threads |-> Idle] /\ copy = [t \in Threads |-> None]
  /\ requests = 0 /\ clash = FALSE /\ mixed = FALSE

-----------------------------------------------------------------------------
(* Requests                                                                *)

Request(t) == handler[t].pc = "idle" /\ requests < MaxRequests /\ requests' = requests + 1

Patch(t, list) ==
  /\ handler' = [handler EXCEPT ![t] = Asked("routes", "masks", list, None, None)]
  /\ mixed' = (mixed \/ Patching # {})

routes_post_handler(t, list) ==
  /\ Request(t) /\ Patch(t, list)
  /\ UNCHANGED <<file, memory, lock, rebuilds, copy, clash>>

preset_recall_handler(t) ==
  /\ preset # None /\ Request(t) /\ Patch(t, preset)
  /\ UNCHANGED <<file, memory, lock, rebuilds, copy, clash>>

preset_save_handler(t) ==
  /\ Request(t) /\ lock = None
  /\ preset' = routes
  /\ UNCHANGED <<file, engine, masks, routes, labels, lock, rebuilds, handler, copy, clash, mixed>>

\* The lock of the labels is not held until they are saved.
local_labels_post_handler(t, list) ==
  /\ Request(t)
  /\ labels' = Fit(list, engine.channels)
  /\ handler' = [handler EXCEPT ![t] = Asked("labels", "load", None, labels', None)]
  /\ clash' = (clash \/ \E u \in Threads : handler[u].part = "labels")
  /\ UNCHANGED <<file, engine, masks, routes, preset, lock, rebuilds, copy, mixed>>

\* A second one is refused while the first one runs: restart_lock.
setup_apply_handler(t, remotes, channels) ==
  /\ Request(t) /\ \A u \in Threads : handler[u].part # "setup"
  /\ handler' = [handler EXCEPT ![t] =
       Asked("setup", "load", None, None, [remotes |-> remotes, channels |-> channels])]
  /\ UNCHANGED <<file, memory, lock, rebuilds, copy, clash, mixed>>

-----------------------------------------------------------------------------
(* Masks and list                                                          *)

\* Mutant: the masks of the transmit channels are left alone.
OutputMaskStored(h) ==
  IF h.slot \in Outputs
  THEN [masks EXCEPT ![h.slot] = Mask(h.routes, h.slot, engine.channels)] ELSE masks

MaskStored(h) == [masks EXCEPT ![h.slot] = Mask(h.routes, h.slot, engine.channels)]

StoreMask(t) ==
  LET h == handler[t]
  IN  /\ h.pc = "masks" /\ h.slot \in MaskSlots
      /\ masks' = MaskStored(h)
      /\ handler' = [handler EXCEPT ![t].slot = h.slot + 1]
      /\ UNCHANGED <<file, engine, routes, labels, preset, lock, rebuilds, requests, copy, clash, mixed>>

\* Mutant: the list is saved after its lock was released.
ReplaceListUnlocked(t) ==
  /\ handler[t].pc = "masks" /\ handler[t].slot \notin MaskSlots /\ lock = None
  /\ routes' = handler[t].routes
  /\ handler' = [handler EXCEPT ![t].pc = "load"]
  /\ UNCHANGED <<file, engine, masks, labels, preset, lock, rebuilds, requests, copy, clash, mixed>>

ReplaceList(t) ==
  /\ handler[t].pc = "masks" /\ handler[t].slot \notin MaskSlots /\ lock = None
  /\ lock' = t /\ routes' = handler[t].routes
  /\ handler' = [handler EXCEPT ![t].pc = "load"]
  /\ UNCHANGED <<file, engine, masks, labels, preset, rebuilds, requests, copy, clash, mixed>>

-----------------------------------------------------------------------------
(* Saving                                                                  *)

\* Mutant: a remote is taken for the one that had its place in the list.
MovesByPlace(old, new) ==
  {[from |-> old[i].index, to |-> new[i].index] :
     i \in {k \in DOMAIN old \cap DOMAIN new : old[k].index # new[k].index}}

\* What it takes to follow the remotes that kept their name.
Moves(old, new) ==
  {[from |-> old[k[1]].index, to |-> new[k[2]].index] :
     k \in {p \in (DOMAIN old) \X (DOMAIN new) :
              old[p[1]].name = new[p[2]].name /\ old[p[1]].index # new[p[2]].index}}

Renumber(list, move) ==
  {IF r.source.kind = "peer" /\ r.source.remote = move.from
   THEN [r EXCEPT !.source.remote = move.to] ELSE r : r \in list}

\* The moves come from a HashMap: in any order, each on the result of the last.
Migrations(list, old, new) ==
  {FoldLeft(Renumber, list, order) : order \in SetToSeqs(Moves(old, new))}

\* Mutant: the settings of an apply are all there is.
AppliedAfresh(setup, saved) ==
  {[remotes |-> setup.remotes, channels |-> setup.channels, labels |-> <<>>, routes |-> list] :
     list \in Migrations(saved.routes, saved.remotes, setup.remotes)}

Applied(setup, saved) ==
  {[remotes |-> setup.remotes, channels |-> setup.channels, labels |-> saved.labels, routes |-> list] :
     list \in Migrations(saved.routes, saved.remotes, setup.remotes)}

\* The copies a handler may make of what it loads: with its own part changed.
Changed(h, saved) ==
  CASE h.part = "setup"  -> Applied(h.setup, saved)
    [] h.part = "labels" -> {[saved EXCEPT !.labels = h.labels]}
    [] h.part = "routes" -> {[saved EXCEPT !.routes = h.routes]}

\* Two saves of routes do not count: the lock of the list is to keep them apart.
Clashes(t) ==
  \E u \in Threads \ {t} : /\ handler[u].pc \in {"empty", "write"}
                           /\ handler[t].part # "routes" \/ handler[u].part # "routes"

Load(t) ==
  /\ handler[t].pc = "load"
  /\ handler' = [handler EXCEPT ![t].pc = "empty"]
  /\ \E saved \in Changed(handler[t], load_persisted_state) : copy' = [copy EXCEPT ![t] = saved]
  /\ clash' = (clash \/ Clashes(t))
  /\ UNCHANGED <<file, memory, lock, rebuilds, requests, mixed>>

EmptyFile(t) ==
  /\ handler[t].pc = "empty"
  /\ file' = Empty
  /\ handler' = [handler EXCEPT ![t].pc = "write"]
  /\ UNCHANGED <<memory, lock, rebuilds, requests, copy, clash, mixed>>

\* The handler goes on as if its save had succeeded.
SaveDone(t) ==
  /\ lock' = IF lock = t THEN None ELSE lock
  /\ rebuilds' = IF handler[t].part = "setup" THEN rebuilds \cup {handler[t].setup} ELSE rebuilds
  /\ handler' = [handler EXCEPT ![t] = Idle] /\ copy' = [copy EXCEPT ![t] = None]
  /\ UNCHANGED <<memory, requests, mixed>>

\* Of two writes that overlap, a longer one leaves its tail behind.
WriteFile(t) ==
  /\ handler[t].pc = "write"
  /\ file' = copy[t] \/ (file # Empty /\ file' = Torn)
  /\ SaveDone(t) /\ UNCHANGED clash

\* The file cannot be opened, or the disk is full when it has been emptied; the
\* beginning of a text is as good as none.  The error is logged and the handler, which
\* made its change in memory, answers that all is well.
SaveFails(t) ==
  /\ handler[t].pc \in {"empty", "write"}
  /\ \/ file' = file
     \/ handler[t].pc = "write" /\ file # Empty /\ file' = Torn
  /\ SaveDone(t) /\ clash' = TRUE

-----------------------------------------------------------------------------
(* Restarts                                                                *)

\* 250 ms after an apply the process replaces itself, whatever it is doing.
Exec == \E args \in rebuilds : Boot(args)

\* The process ends and is started again without arguments.
Restart == Boot(None)

Handle(t) ==
  \/ \E list \in RouteLists : routes_post_handler(t, list)
  \/ preset_recall_handler(t)
  \/ preset_save_handler(t)
  \/ \E list \in LabelLists : local_labels_post_handler(t, list)
  \/ \E remotes \in RemoteLists, channels \in Channels : setup_apply_handler(t, remotes, channels)
  \/ StoreMask(t)
  \/ ReplaceList(t)
  \/ Load(t)
  \/ EmptyFile(t)
  \/ WriteFile(t)
  \/ SaveFails(t)

Next == (\E t \in Threads : Handle(t)) \/ Exec \/ Restart

Spec == Init /\ [][Next]_vars

-----------------------------------------------------------------------------
(* Properties                                                              *)

\* Every variable has its type: masks hold bits of a 64-bit word, whatever
\* the indices of remotes in routes (routing.rs:91), and only a handler on
\* its way through a save holds the lock of the list.
TypeOK ==
  /\ \A slot \in MaskSlots : masks[slot] \subseteq Channel
  /\ routes \subseteq Route
  /\ engine.channels \in Channels /\ labels \in [1..engine.channels -> Labels]
  /\ preset = None \/ preset \subseteq Route
  /\ \A t \in Threads : /\ handler[t].pc \in {"idle", "masks", "load", "empty", "write"}
                        /\ handler[t].slot \in MaskSlots \cup {MaxChannels + 2}
                        /\ lock = t <=> t \in Saving /\ handler[t].part = "routes"
  /\ lock \in Threads \cup {None}
  /\ requests \in 0..MaxRequests /\ clash \in BOOLEAN /\ mixed \in BOOLEAN

\* The audio threads route by the masks, the UI shows the list: when no
\* handler is between the two, and no two handlers stored masks at the same
\* time, the masks are those of the list (web.rs:173-177, 230-235).
MasksMatchList ==
  Patching = {} /\ ~mixed =>
    \A slot \in MaskSlots : masks[slot] = Mask(routes, slot, engine.channels)

\* What the UI shows is what a restart brings back: when no save is under way
\* and none was lost to another one or failed, the labels and valid routes in the file
\* are those in memory (persistence.rs:125-134, web.rs:197-200).
SavedIsShown ==
  Patching \cup Saving = {} /\ rebuilds = {} /\ ~clash =>
    LET saved == load_persisted_state
    IN  /\ Fit(saved.labels, engine.channels) = labels
        /\ ValidRoutes(saved.routes, engine.channels) = ValidRoutes(routes, engine.channels)

\* What an output plays of the remotes that have a session, as the list has it
\* (engine.rs:944, 1359-1375; routing.rs:86-92).  When it resamples it plays the
\* remotes whose index is below the number of enabled ones: with a gap in the
\* indices, a remote after it is silent.  At 48 kHz it plays the one with index 0,
\* if that peer sends the local number of channels.  Of a remote it plays the
\* channels the list wires to it, and no other but those that spill: a route from a
\* channel that its remote does not have, which a process with more channels left
\* behind, plays a channel of a remote after it.
HeardAsRouted ==
  LET n      == engine.channels
      active == active_remotes(engine.remotes)
      played == {r \in HasSession(engine.remotes, n) :
                   IF Resampled THEN r.index < Cardinality(active) ELSE r.index = 0}
  IN  Patching = {} /\ ~mixed =>
        \A o \in Outputs :
          Heard(engine.remotes, n, masks[o]) =
            {h \in {r.name : r \in played} \X (0..(n - 1)) :
               \E r \in played :
                 /\ r.name = h[1]
                 /\ \E k \in 0..r.index :
                      Wire(PeerCh(r.index - k, k * n + h[2]), Output(o)) \in routes}

\* Whatever restarts the process, the channels it still has keep the labels that
\* were saved (web.rs:371, README.md:313), unless a save, of whatever part, had
\* just emptied the file: then every label is lost, never some of them.  Nothing is
\* said while labels are being saved, for the file may or may not have them yet, nor
\* after saves that overlapped or failed.
LabelsSurvive ==
  [][(Exec \/ Restart) /\ ~clash /\ (\A t \in Threads : handler[t].part # "labels") =>
       \/ \A ch \in DOMAIN labels \cap DOMAIN labels' : labels'[ch] = labels[ch]
       \/ /\ \E t \in Threads : handler[t].pc = "write"
          /\ \A ch \in DOMAIN labels' : labels'[ch] = DefaultLabel]_vars

\* What was applied is what runs: the new process takes the channel count from its
\* arguments and the remotes from the file, and the two belong to one apply
\* (web.rs:276-417, main.rs:193-215).  Nothing is said when a second apply is answered
\* before the first one replaced the process, which then has the channels of one
\* and the remotes of the other, nor after saves that overlapped or failed or in the
\* middle of one.
ApplyTakesEffect ==
  [][\A setup \in rebuilds :
       Exec /\ rebuilds = {setup} /\ Saving = {} /\ ~clash =>
         engine' = setup]_vars

\* The remotes of a list have a name and an index of their own.
Distinct(list) ==
  \A i, j \in DOMAIN list : list[i].name = list[j].name \/ list[i].index = list[j].index => i = j

\* The remotes of a list that, by their name, are in another one.
Named(list, other) == {r \in Range(list) : \E q \in Range(other) : q.name = r.name}

\* The routes of each remote that kept its name are now those of one such remote,
\* f[q], which has no others but those that were there for an index without one.
MovedWhole(old, new, before, after) ==
  LET Plays(list, r, ch, o) == Wire(PeerCh(r.index, ch), Output(o)) \in list
  IN  \E f \in [Named(old, new) -> Named(new, old)] :
        /\ \A r \in Named(new, old), ch \in Channel, o \in Outputs :
             Plays(after, r, ch, o) <=>
               \/ \E q \in Named(old, new) : f[q] = r /\ Plays(before, q, ch, o)
               \/ Plays(before, r, ch, o) /\ \A q \in Named(old, new) : q.index # r.index
        /\ \/ \A q \in Named(old, new) : f[q].name = q.name
           \/ \E q \in Named(old, new), r \in Named(new, old) :
                q.index = r.index /\ q.name # r.name

\* An apply moves the routes of a remote as a whole, to one of the remotes that
\* kept their name (web.rs:348-368).  It is that remote itself, unless one moves to
\* an index that another one had: then, as in a swap, the routes of two remotes may
\* end with one of them, for the moves are made one after the other.
MigrationKeepsNames ==
  [][\A t \in Threads :
       LET saved == load_persisted_state
           new   == handler[t].setup.remotes
       IN  (/\ handler[t].pc = "load" /\ handler[t].part = "setup"
            /\ handler'[t].pc = "empty"
            /\ Distinct(saved.remotes) /\ Distinct(new)) =>
              MovedWhole(saved.remotes, new, saved.routes, copy'[t].routes)]_vars
=============================================================================
