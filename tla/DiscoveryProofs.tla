-------------------------- MODULE DiscoveryProofs --------------------------
(***************************************************************************)
(* Proofs about the discovery files (Discovery): what a viewer publishes   *)
(* stays whole and in place, and the MCP server's walk reaches it, for any *)
(* set of pids, any viewers and any number of launches and power losses.   *)
(***************************************************************************)
EXTENDS Discovery, WellFoundedInduction, TLAPS

PreLive == {"bound", "written", "synced"}
ProcStates == PreLive \cup {"gone", "live", "closing", "plain"}
ReaderPcs == {"idle", "glob", "read", "probe", "drop", "connect", "refused"}
ProcType == [st : ProcStates, inst : Nat, debugger : Nat, reused : BOOLEAN, raced : BOOLEAN]
FileType == [inst : Nat, debugger : Nat, synced : BOOLEAN, whole : BOOLEAN]
EntryType == [pid : Nat, inst : Nat, debugger : Nat]

Walking == pc \in {"read", "probe", "drop"}
InHand == pc \in {"probe", "drop", "connect", "refused"}

Types ==
    /\ proc \in [Pids -> ProcType] /\ file \in [Pids -> FileType] /\ launches \in Nat
    /\ pc \in ReaderPcs /\ todo \subseteq Pids /\ reaped \subseteq Pids
    /\ info \in EntryType /\ entries \subseteq EntryType
    /\ failed \in BOOLEAN /\ reuse \in BOOLEAN

\* What rename() put in place had been synced, and no crash tore it.
WholeInv == \A p \in Pids : file[p].synced /\ file[p].whole

\* A process has a launch of its own; only one whose pid was used before may have
\* published in the middle of a call.
ProcInv ==
    /\ \A p \in Pids : /\ proc[p].inst <= launches /\ file[p].inst <= launches
                       /\ proc[p].st # "gone" => proc[p].inst > 0 /\ p \in used
                       /\ proc[p].raced => proc[p].reused
    /\ \A p, q \in Pids : proc[p].st # "gone" /\ proc[q].st # "gone" /\ proc[p].inst = proc[q].inst
                            => p = q

\* The file of a viewer that serves is its own.
Shown(p, e) == Live(p) /\ ~proc[p].raced => e.inst = proc[p].inst /\ e.debugger = proc[p].debugger

FileInv == \A p \in Pids : Shown(p, file[p])

\* Nothing is known of a process that has not published yet, unless it has the pid
\* of another.
Fresh(p) == proc[p].st \in PreLive /\ ~proc[p].reused

FreshInv ==
    \A p \in Pids : Fresh(p) =>
        /\ file[p] = NoFile /\ p \notin todo
        /\ \A e \in entries : e.pid # p
        /\ InHand => info.pid # p

\* All pids the reader knows were used.
UsedInv ==
    /\ \A p \in Pids : file[p] # NoFile => p \in used
    /\ todo \subseteq used /\ reaped \subseteq used
    /\ \A e \in entries : e.pid \in used /\ e.pid \in Pids
    /\ InHand => info.pid \in used /\ info.pid \in Pids

\* The entries at hand are those of the viewers that serve under their pids; one
\* to be dropped is not, and one that refused still does.
EntryInv ==
    /\ ~Walking => entries = {}
    /\ \A e \in entries : e.inst <= launches /\ Shown(e.pid, e)
    /\ pc \in {"probe", "connect", "refused"} => info.inst <= launches /\ Shown(info.pid, info)
    /\ pc = "drop" => (Live(info.pid) => proc[info.pid].raced)
    /\ pc = "refused" => ~Listening(info.inst)

\* While no pid changes hands, a reaped path stays unused.
ReapInv ==
    pc # "idle" /\ ~reuse =>
        /\ \A p \in Pids : ~proc[p].reused
        /\ \A q \in reaped : proc[q].st \in {"gone", "closing", "plain"}
        /\ \A q \in reaped \ Unremovable :
              /\ file[q] = NoFile
              /\ Walking => q \notin todo /\ \A e \in entries : e.pid # q
              /\ InHand => info.pid # q

\* A viewer that serves throughout is among the files still to read or the entries.
ReachInv ==
    /\ \A i \in steady : \E p \in Pids : Live(p) /\ proc[p].inst = i
    /\ Walking /\ ~reuse =>
          \A p \in Pids : Live(p) /\ proc[p].inst \in steady
                            => p \in todo \/ \E e \in entries : e.pid = p
    /\ failed => pc = "idle"
    /\ LookupReachesLive

\* The inductive invariant.
Inv == /\ Types /\ WholeInv /\ ProcInv /\ FileInv /\ FreshInv /\ UsedInv /\ EntryInv
       /\ ReapInv /\ ReachInv
-----------------------------------------------------------------------------
(* The viewers *)

\* A process goes on towards its file or back to its end, and may remove the file.
LEMMA Recedes ==
    ASSUME Inv, NEW p \in Pids, proc' \in [Pids -> ProcType],
           \A q \in Pids : q # p => proc'[q] = proc[q],
           proc'[p].st # "live",
           proc'[p].st # "gone" =>
              /\ proc[p].st # "gone" /\ proc'[p].inst = proc[p].inst
              /\ proc'[p].reused = proc[p].reused,
           proc'[p].inst <= proc[p].inst,
           proc'[p].reused => proc[p].reused, proc'[p].raced => proc'[p].reused,
           proc'[p].st \in PreLive => proc[p].st \in PreLive,
           file' = file \/ file' = [file EXCEPT ![p] = NoFile],
           UNCHANGED <<used, launches, pc, callVars, reuse>>,
           steady' \subseteq steady, proc[p].st = "live" => proc[p].inst \notin steady'
    PROVE  Inv'
<1>0. /\ Types /\ WholeInv /\ ProcInv /\ FileInv /\ FreshInv /\ UsedInv /\ EntryInv
      /\ ReapInv /\ ReachInv
  BY DEF Inv
<1>1. /\ UNCHANGED <<used, launches, pc, selector, todo, info, entries, reaped, failed, reuse>>
      /\ proc \in [Pids -> ProcType] /\ file \in [Pids -> FileType] /\ launches \in Nat
  BY <1>0 DEF Types, callVars
<1>2. \A q \in Pids : file'[q] = file[q] \/ file'[q] = NoFile
  BY <1>1
<1>3. \A q \in Pids : q # p => file'[q] = file[q]
  BY <1>1
<1>4. \A q \in Pids : /\ Live(q)' => Live(q) /\ q # p /\ proc'[q] = proc[q]
                      /\ Fresh(q)' => Fresh(q)
  BY DEF Live, Fresh, PreLive
<1>5. NoFile \in FileType /\ NoFile.synced /\ NoFile.whole /\ NoFile.inst = 0
  BY DEF NoFile, FileType, NoPid
<1>6. Types' /\ WholeInv'
  <2>1. file' \in [Pids -> FileType]
    BY <1>1, <1>5
  <2>2. WholeInv'
    BY <1>0, <1>2, <1>5 DEF WholeInv
  <2> QED
    BY <1>0, <1>1, <2>1, <2>2 DEF Types
<1>7. ProcInv'
  <2>1. ASSUME NEW q \in Pids
        PROVE  /\ proc'[q].inst <= launches' /\ file'[q].inst <= launches'
               /\ proc'[q].st # "gone" => proc'[q].inst > 0 /\ q \in used'
               /\ proc'[q].raced => proc'[q].reused
    <3>1. /\ proc[q].inst <= launches /\ file[q].inst <= launches
          /\ proc[q].st # "gone" => proc[q].inst > 0 /\ q \in used
          /\ proc[q].raced => proc[q].reused
      BY <1>0 DEF ProcInv
    <3>2. file'[q].inst <= launches
      BY <1>1, <1>2, <1>5, <3>1
    <3>3. proc[q].inst \in Nat /\ proc'[q].inst \in Nat
      BY <1>1 DEF ProcType
    <3>4. CASE q = p
      BY <1>1, <3>1, <3>2, <3>3, <3>4
    <3>5. CASE q # p
      BY <1>1, <3>1, <3>2, <3>5
    <3> QED
      BY <3>4, <3>5
  <2>2. ASSUME NEW q \in Pids, NEW r \in Pids,
               proc'[q].st # "gone", proc'[r].st # "gone", proc'[q].inst = proc'[r].inst
        PROVE  q = r
    <3>1. /\ proc[q].st # "gone" /\ proc'[q].inst = proc[q].inst
          /\ proc[r].st # "gone" /\ proc'[r].inst = proc[r].inst
      BY <2>2
    <3> QED
      BY <1>0, <2>2, <3>1 DEF ProcInv
  <2> QED
    BY <2>1, <2>2 DEF ProcInv
<1>8. FileInv'
  BY <1>0, <1>3, <1>4 DEF FileInv, Shown, Live
<1>9. FreshInv'
  BY <1>0, <1>1, <1>2, <1>4 DEF FreshInv, InHand
<1>10. UsedInv'
  BY <1>0, <1>1, <1>2 DEF UsedInv, InHand
<1>11. EntryInv'
  <2>1. \A e : e.pid \in Pids /\ Shown(e.pid, e) => Shown(e.pid, e)'
    BY <1>4 DEF Shown
  <2>2. Listening(info.inst)' => Listening(info.inst)
    <3> SUFFICES ASSUME NEW q \in Pids, proc'[q].inst = info.inst,
                        proc'[q].st \in PreLive \cup {"live"}
                 PROVE  proc[q].inst = info.inst /\ proc[q].st \in PreLive \cup {"live"}
      BY <1>1 DEF Listening, PreLive
    <3>1. CASE q = p
      BY <3>1 DEF PreLive
    <3>2. CASE q # p
      BY <3>2
    <3> QED
      BY <3>1, <3>2
  <2>3. pc \in {"probe", "connect", "refused", "drop"} => info.pid \in Pids
    BY <1>0 DEF UsedInv, InHand
  <2>4. \A e \in entries : e.pid \in Pids
    BY <1>0 DEF UsedInv
  <2>5. \A e \in entries : e.inst <= launches' /\ Shown(e.pid, e)'
    BY <1>0, <1>1, <2>1, <2>4 DEF EntryInv
  <2>6. pc \in {"probe", "connect", "refused"} => info.inst <= launches' /\ Shown(info.pid, info)'
    BY <1>0, <1>1, <2>1, <2>3 DEF EntryInv
  <2>7. pc = "drop" => (Live(info.pid)' => proc'[info.pid].raced)
    BY <1>0, <1>1, <1>4, <2>3 DEF EntryInv, Live
  <2>8. info' = info /\ entries' = entries /\ pc' = pc
    BY <1>1
  <2>9. (~Walking => entries = {}) /\ (pc = "refused" => ~Listening(info.inst)')
    BY <1>0, <2>2 DEF EntryInv
  <2> QED
    BY <2>5, <2>6, <2>7, <2>8, <2>9 DEF EntryInv, Walking, Shown, Live, Listening
<1>12. ReapInv'
  <2> SUFFICES ASSUME pc # "idle", ~reuse
               PROVE  ReapInv'
    BY <1>1 DEF ReapInv
  <2>1. /\ \A q \in Pids : ~proc'[q].reused
        /\ \A q \in reaped : proc'[q].st \in {"gone", "closing", "plain"}
    <3>1. /\ \A q \in Pids : ~proc[q].reused
          /\ \A q \in reaped : proc[q].st \in {"gone", "closing", "plain"} /\ q \in Pids
      BY <1>0 DEF ReapInv, Types
    <3>2. proc'[p].st \in ProcStates
      BY DEF ProcType
    <3> QED
      BY <3>1, <3>2 DEF ProcStates, PreLive
  <2>2. \A q \in reaped \ Unremovable :
              /\ file[q] = NoFile /\ q \in Pids
              /\ Walking => q \notin todo /\ \A e \in entries : e.pid # q
              /\ InHand => info.pid # q
    BY <1>0 DEF ReapInv, Types
  <2>3. \A q \in reaped \ Unremovable : file'[q] = NoFile
    BY <1>2, <2>2
  <2> QED
    BY <1>1, <2>1, <2>2, <2>3 DEF ReapInv, Walking, InHand
<1>13. ReachInv'
  <2>1. ASSUME NEW i \in steady'
        PROVE  \E q \in Pids : Live(q)' /\ proc'[q].inst = i
    <3>1. PICK q \in Pids : Live(q) /\ proc[q].inst = i
      BY <1>0, <2>1 DEF ReachInv
    <3>2. q # p
      BY <2>1, <3>1 DEF Live
    <3> QED
      BY <3>1, <3>2 DEF Live
  <2>2. \A q \in Pids : Live(q)' /\ proc'[q].inst \in steady' => Live(q) /\ proc[q].inst \in steady
    BY <1>4
  <2>3. Walking' /\ ~reuse' =>
          \A q \in Pids : Live(q)' /\ proc'[q].inst \in steady'
                            => q \in todo' \/ \E e \in entries' : e.pid = q
    BY <1>0, <1>1, <2>2 DEF ReachInv, Walking
  <2>4. failed' => pc' = "idle"
    BY <1>0, <1>1 DEF ReachInv
  <2>5. LookupReachesLive'
    BY <1>0, <1>1, <1>4, <2>2 DEF ReachInv, LookupReachesLive, Undisturbed, Wanted
  <2> QED
    BY <2>1, <2>3, <2>4, <2>5 DEF ReachInv
<1> QED
  BY <1>6, <1>7, <1>8, <1>9, <1>10, <1>11, <1>12, <1>13 DEF Inv

\* The steps of a viewer on its way to its file and to its end.
LEMMA ViewerKeeps ==
    ASSUME Inv, NEW p \in Pids,
           \/ WriteTemp(p) \/ SyncTemp(p) \/ PublishFails(p)
           \/ StopAccepting(p) \/ RemoveFile(p) \/ Exit(p)
    PROVE  Inv'
<1>0. /\ proc \in [Pids -> ProcType] /\ proc[p] \in ProcType
      /\ \A i \in steady : \E q \in Pids : Live(q) /\ proc[q].inst = i
      /\ \A q, r \in Pids : proc[q].st # "gone" /\ proc[r].st # "gone" /\ proc[q].inst = proc[r].inst
                              => q = r
      /\ proc[p].raced => proc[p].reused
  BY DEF Inv, Types, ReachInv, ProcInv
<1>1. /\ UNCHANGED <<used, launches, pc, callVars, reuse>>
      /\ file' = file \/ file' = [file EXCEPT ![p] = NoFile]
      /\ steady' \subseteq steady
  BY DEF WriteTemp, SyncTemp, PublishFails, StopAccepting, RemoveFile, Exit
<1>2. proc[p].st = "live" => proc[p].inst \notin steady'
  BY DEF WriteTemp, SyncTemp, PublishFails, StopAccepting, RemoveFile, Exit, Steps
<1>3. CASE \E to \in {"written", "synced", "plain", "closing"} :
              /\ proc' = [proc EXCEPT ![p].st = to] /\ proc[p].st # "gone"
              /\ to \in PreLive => proc[p].st \in PreLive
  <2>1. PICK to \in {"written", "synced", "plain", "closing"} :
              /\ proc' = [proc EXCEPT ![p].st = to] /\ proc[p].st # "gone"
              /\ to \in PreLive => proc[p].st \in PreLive
    BY <1>3
  <2>2. /\ \A q \in Pids : q # p => proc'[q] = proc[q]
        /\ proc'[p] = [proc[p] EXCEPT !.st = to]
    BY <1>0, <2>1
  <2>3. /\ proc'[p] \in ProcType /\ proc'[p].st = to /\ proc'[p].inst = proc[p].inst
        /\ proc'[p].reused = proc[p].reused /\ proc'[p].raced = proc[p].raced
        /\ proc[p].inst \in Nat
    BY <1>0, <2>2 DEF ProcType, ProcStates, PreLive
  <2>4. proc' \in [Pids -> ProcType] /\ proc'[p].inst <= proc[p].inst
    BY <1>0, <2>1, <2>3
  <2> QED
    BY <1>0, <1>1, <1>2, <2>1, <2>2, <2>3, <2>4, Recedes
<1>4. CASE Exit(p)
  <2>1. /\ \A q \in Pids : q # p => proc'[q] = proc[q]
        /\ proc'[p] = Gone /\ proc' \in [Pids -> ProcType]
    BY <1>0, <1>4 DEF Exit, Gone, ProcType, ProcStates, PreLive, NoPid
  <2>2. /\ proc'[p].st = "gone" /\ proc'[p].inst = 0 /\ ~proc'[p].reused /\ ~proc'[p].raced
        /\ proc'[p].inst <= proc[p].inst
    BY <1>0, <2>1 DEF Gone, ProcType
  <2> QED
    BY <1>1, <1>2, <2>1, <2>2, Recedes DEF PreLive
<1> QED
  BY <1>3, <1>4 DEF WriteTemp, SyncTemp, PublishFails, StopAccepting, RemoveFile, Exit, Steps, PreLive

\* A process that begins has a launch of its own, and the pid of another only if
\* that is known.
LEMMA LaunchKeeps ==
    ASSUME Inv, NEW p \in Pids, NEW d \in Nat, Launch(p, d)
    PROVE  Inv'
<1>0. /\ Types /\ WholeInv /\ ProcInv /\ FileInv /\ FreshInv /\ UsedInv /\ EntryInv
      /\ ReapInv /\ ReachInv
  BY DEF Inv
<1>1. /\ UNCHANGED <<file, pc, selector, todo, info, entries, reaped, failed, steady>>
      /\ proc \in [Pids -> ProcType] /\ file \in [Pids -> FileType] /\ launches \in Nat
      /\ launches' = launches + 1 /\ used' = used \cup {p} /\ proc[p].st = "gone"
      /\ reuse' = (reuse \/ (pc # "idle" /\ p \in used))
  BY <1>0 DEF Launch, Types, callVars
<1>2. /\ \A q \in Pids : q # p => proc'[q] = proc[q]
      /\ proc'[p].st = "bound" /\ proc'[p].inst = launches + 1
      /\ proc'[p].reused = (p \in used) /\ ~proc'[p].raced
      /\ proc' \in [Pids -> ProcType]
  <2>1. [st |-> "bound", inst |-> launches + 1, debugger |-> d, reused |-> p \in used,
         raced |-> FALSE] \in ProcType
    BY <1>1 DEF ProcType, ProcStates, PreLive
  <2> QED
    BY <1>1, <2>1 DEF Launch
<1>3. \A q \in Pids : /\ Live(q)' => Live(q) /\ q # p /\ proc'[q] = proc[q]
                      /\ Live(q) => Live(q)'
  BY <1>1, <1>2 DEF Live
<1>4. /\ \A q \in Pids : proc[q].inst \in Nat /\ proc[q].inst <= launches
      /\ \A q \in Pids : file[q].inst \in Nat /\ file[q].inst <= launches
      /\ \A e \in entries : e.inst \in Nat
      /\ info.inst \in Nat
  BY <1>0, <1>1 DEF ProcInv, ProcType, FileType, Types, EntryType
<1>5. Types' /\ WholeInv'
  <2>1. launches' \in Nat /\ reuse' \in BOOLEAN
    BY <1>0, <1>1 DEF Types
  <2>2. Types'
    BY <1>0, <1>1, <1>2, <2>1 DEF Types
  <2>3. WholeInv'
    BY <1>0, <1>1 DEF WholeInv
  <2> QED
    BY <2>2, <2>3
<1>6. ProcInv'
  <2>1. ASSUME NEW q \in Pids
        PROVE  /\ proc'[q].inst <= launches' /\ file'[q].inst <= launches'
               /\ proc'[q].st # "gone" => proc'[q].inst > 0 /\ q \in used'
               /\ proc'[q].raced => proc'[q].reused
    <3>1. CASE q = p
      BY <1>1, <1>2, <1>4, <3>1
    <3>2. CASE q # p
      BY <1>0, <1>1, <1>2, <1>4, <3>2 DEF ProcInv
    <3> QED
      BY <3>1, <3>2
  <2>2. \A q, r \in Pids : proc'[q].st # "gone" /\ proc'[r].st # "gone"
                             /\ proc'[q].inst = proc'[r].inst => q = r
    <3>1. \A q \in Pids : q # p => proc'[q].inst # proc'[p].inst
      BY <1>1, <1>2, <1>4
    <3> QED
      BY <1>0, <1>2, <3>1 DEF ProcInv
  <2> QED
    BY <2>1, <2>2 DEF ProcInv
<1>7. FileInv'
  BY <1>0, <1>1, <1>3 DEF FileInv, Shown, Live
<1>8. FreshInv'
  <2> SUFFICES ASSUME NEW q \in Pids, Fresh(q)'
               PROVE  /\ file[q] = NoFile /\ q \notin todo
                      /\ \A e \in entries : e.pid # q
                      /\ InHand => info.pid # q
    BY <1>1 DEF FreshInv, InHand
  <2>1. CASE q = p
    <3>1. p \notin used
      BY <1>2, <2>1 DEF Fresh
    <3> QED
      BY <1>0, <2>1, <3>1 DEF UsedInv
  <2>2. CASE q # p
    <3>1. Fresh(q)
      BY <1>2, <2>2 DEF Fresh
    <3> QED
      BY <1>0, <3>1 DEF FreshInv
  <2> QED
    BY <2>1, <2>2
<1>9. UsedInv'
  BY <1>0, <1>1 DEF UsedInv, InHand
<1>10. EntryInv'
  <2>1. \A e : \A q \in Pids : Shown(q, e) => Shown(q, e)'
    BY <1>3 DEF Shown
  <2>2. /\ pc \in {"probe", "connect", "refused", "drop"} => info.pid \in Pids
        /\ \A e \in entries : e.pid \in Pids
    BY <1>0 DEF UsedInv, InHand
  <2>3. \A e \in entries : e.inst <= launches'
    BY <1>0, <1>1, <1>4 DEF EntryInv
  <2>4. pc \in {"probe", "connect", "refused"} => info.inst <= launches' /\ info.inst # launches + 1
    BY <1>0, <1>1, <1>4 DEF EntryInv
  <2>5. /\ \A e \in entries : Shown(e.pid, e)'
        /\ pc \in {"probe", "connect", "refused"} => Shown(info.pid, info)'
    BY <1>0, <1>1, <2>1, <2>2 DEF EntryInv
  <2>6. pc = "drop" => (Live(info.pid)' => proc'[info.pid].raced)
    BY <1>0, <1>1, <1>3, <2>2 DEF EntryInv, Live
  <2>7. pc = "refused" => ~Listening(info.inst)'
    <3> SUFFICES ASSUME pc = "refused", NEW q \in Pids, proc'[q].inst = info.inst,
                        proc'[q].st \in PreLive \cup {"live"}
                 PROVE  FALSE
      BY <1>1 DEF Listening, PreLive
    <3>1. q # p
      BY <1>2, <2>4
    <3>2. ~Listening(info.inst)
      BY <1>0 DEF EntryInv
    <3> QED
      BY <1>2, <3>1, <3>2 DEF Listening, PreLive
  <2>8. ~Walking => entries = {}
    BY <1>0 DEF EntryInv
  <2> QED
    BY <1>1, <2>3, <2>4, <2>5, <2>6, <2>7, <2>8 DEF EntryInv, Walking, Shown, Live, Listening
<1>11. ReapInv'
  <2> SUFFICES ASSUME pc # "idle", ~reuse'
               PROVE  ReapInv'
    BY <1>1 DEF ReapInv
  <2>1. ~reuse /\ p \notin used
    BY <1>1
  <2>2. /\ \A q \in Pids : ~proc[q].reused
        /\ \A q \in reaped : proc[q].st \in {"gone", "closing", "plain"} /\ q \in Pids
        /\ \A q \in reaped \ Unremovable :
              /\ file[q] = NoFile
              /\ Walking => q \notin todo /\ \A e \in entries : e.pid # q
              /\ InHand => info.pid # q
    BY <1>0, <2>1 DEF ReapInv, Types
  <2>3. p \notin reaped
    BY <1>0, <2>1 DEF UsedInv
  <2>4. /\ \A q \in Pids : ~proc'[q].reused
        /\ \A q \in reaped : proc'[q].st \in {"gone", "closing", "plain"}
    BY <1>2, <2>1, <2>2, <2>3
  <2> QED
    BY <1>1, <2>2, <2>4 DEF ReapInv, Walking, InHand
<1>12. ReachInv'
  <2>1. \A i \in steady' : \E q \in Pids : Live(q)' /\ proc'[q].inst = i
    BY <1>0, <1>1, <1>3 DEF ReachInv
  <2>2. Walking' /\ ~reuse' =>
          \A q \in Pids : Live(q)' /\ proc'[q].inst \in steady'
                            => q \in todo' \/ \E e \in entries' : e.pid = q
    BY <1>0, <1>1, <1>3 DEF ReachInv, Walking
  <2>3. failed' => pc' = "idle"
    BY <1>0, <1>1 DEF ReachInv
  <2>4. LookupReachesLive'
    BY <1>0, <1>1, <1>3 DEF ReachInv, LookupReachesLive, Undisturbed, Wanted
  <2> QED
    BY <2>1, <2>2, <2>3, <2>4 DEF ReachInv
<1> QED
  BY <1>5, <1>6, <1>7, <1>8, <1>9, <1>10, <1>11, <1>12 DEF Inv

\* A viewer publishes: what is known under its pid is its own, but for an entry
\* taken in hand before, of another viewer with this pid.
LEMMA RenameKeeps ==
    ASSUME Inv, NEW p \in Pids, Rename(p)
    PROVE  Inv'
<1>0. /\ Types /\ WholeInv /\ ProcInv /\ FileInv /\ FreshInv /\ UsedInv /\ EntryInv
      /\ ReapInv /\ ReachInv
  BY DEF Inv
<1>1. /\ UNCHANGED <<used, launches, pc, selector, todo, info, entries, reaped, failed, steady,
                     reuse>>
      /\ proc \in [Pids -> ProcType] /\ file \in [Pids -> FileType] /\ launches \in Nat
      /\ proc[p].st = "synced" /\ proc[p] \in ProcType
  BY <1>0 DEF Rename, Types, callVars
<1>2. /\ \A q \in Pids : q # p => proc'[q] = proc[q]
      /\ proc'[p].st = "live" /\ proc'[p].inst = proc[p].inst
      /\ proc'[p].debugger = proc[p].debugger /\ proc'[p].reused = proc[p].reused
      /\ proc'[p].raced = Held(p)
      /\ proc' \in [Pids -> ProcType]
  <2> DEFINE s == proc[p]
             h == Held(p)
             r == [s EXCEPT !.st = "live", !.raced = h]
  <2>1. /\ proc' = [proc EXCEPT ![p] = r]
    BY <1>1 DEF Rename
  <2>2. s \in ProcType
    BY <1>1
  <2>3. /\ r \in ProcType /\ r.st = "live" /\ r.inst = s.inst /\ r.debugger = s.debugger
        /\ r.reused = s.reused /\ r.raced = h
    <3>1. h \in BOOLEAN
      BY DEF Held
    <3> HIDE DEF s, h
    <3>2. r \in ProcType
      BY <2>2, <3>1 DEF ProcType, ProcStates, PreLive
    <3>3. /\ r.st = "live" /\ r.inst = s.inst /\ r.debugger = s.debugger
          /\ r.reused = s.reused /\ r.raced = h
      BY <2>2, ZenonT(30) DEF ProcType
    <3> QED
      BY <3>2, <3>3
  <2> HIDE DEF r
  <2> QED
    BY <1>1, <2>1, <2>3
<1>3. /\ \A q \in Pids : q # p => file'[q] = file[q]
      /\ file'[p].inst = proc[p].inst /\ file'[p].debugger = proc[p].debugger
      /\ file'[p].synced /\ file'[p].whole /\ file' \in [Pids -> FileType]
  BY <1>1 DEF Rename, Published, FileType, ProcType
<1>4. /\ \A q \in Pids : q # p => (Live(q)' <=> Live(q)) /\ (Fresh(q)' <=> Fresh(q))
      /\ ~Fresh(p)' /\ (~proc[p].reused => Fresh(p))
  BY <1>1, <1>2 DEF Live, Fresh, PreLive
<1>5. /\ ~proc[p].reused => /\ file[p] = NoFile /\ p \notin todo
                            /\ \A e \in entries : e.pid # p
                            /\ InHand => info.pid # p
                            /\ ~Held(p)
  BY <1>0, <1>4 DEF FreshInv, Held, InHand
<1>6. Types' /\ WholeInv'
  <2>1. Types'
    BY <1>0, <1>1, <1>2, <1>3 DEF Types
  <2>2. WholeInv'
    BY <1>0, <1>3 DEF WholeInv
  <2> QED
    BY <2>1, <2>2
<1>7. ProcInv'
  <2>1. ASSUME NEW q \in Pids
        PROVE  /\ proc'[q].inst <= launches' /\ file'[q].inst <= launches'
               /\ proc'[q].st # "gone" => proc'[q].inst > 0 /\ q \in used'
               /\ proc'[q].raced => proc'[q].reused
    <3>1. CASE q = p
      BY <1>0, <1>1, <1>2, <1>3, <1>5, <3>1 DEF ProcInv
    <3>2. CASE q # p
      BY <1>0, <1>1, <1>2, <1>3, <3>2 DEF ProcInv
    <3> QED
      BY <3>1, <3>2
  <2>2. \A q \in Pids : proc'[q].st # "gone" => proc[q].st # "gone" /\ proc'[q].inst = proc[q].inst
    BY <1>1, <1>2
  <2>3. \A q, r \in Pids : proc'[q].st # "gone" /\ proc'[r].st # "gone"
                             /\ proc'[q].inst = proc'[r].inst => q = r
    BY <1>0, <2>2 DEF ProcInv
  <2> QED
    BY <2>1, <2>3 DEF ProcInv
<1>8. FileInv'
  <2>1. ASSUME NEW q \in Pids
        PROVE  Live(q)' /\ ~proc'[q].raced
                 => file'[q].inst = proc'[q].inst /\ file'[q].debugger = proc'[q].debugger
    <3>1. CASE q = p
      BY <1>2, <1>3, <3>1
    <3>2. CASE q # p
      BY <1>0, <1>2, <1>3, <1>4, <3>2 DEF FileInv, Shown
    <3> QED
      BY <3>1, <3>2
  <2> QED
    BY <2>1 DEF FileInv, Shown
<1>9. FreshInv'
  BY <1>0, <1>1, <1>3, <1>4 DEF FreshInv, InHand
<1>10. UsedInv'
  <2>1. p \in used
    BY <1>0, <1>1 DEF ProcInv
  <2> QED
    BY <1>0, <1>1, <1>3, <2>1 DEF UsedInv, InHand
<1>11. EntryInv'
  <2>1. \A e : \A q \in Pids : Shown(q, e) /\ (q = p => Held(p)) => Shown(q, e)'
    BY <1>2, <1>4 DEF Shown
  <2>2. /\ InHand => info.pid \in Pids
        /\ \A e \in entries : e.pid \in Pids
    BY <1>0 DEF UsedInv
  <2>3. /\ \A e \in entries : e.pid = p => Held(p)
        /\ InHand => (info.pid = p => Held(p))
    BY DEF Held, InHand
  <2>4. \A e \in entries : e.inst <= launches' /\ Shown(e.pid, e)'
    BY <1>0, <1>1, <2>1, <2>2, <2>3 DEF EntryInv
  <2>5. pc \in {"probe", "connect", "refused"} => info.inst <= launches' /\ Shown(info.pid, info)'
    BY <1>0, <1>1, <2>1, <2>2, <2>3 DEF EntryInv, InHand
  <2>6. pc = "drop" => (Live(info.pid)' => proc'[info.pid].raced)
    <3> SUFFICES ASSUME pc = "drop"
                 PROVE  Live(info.pid)' => proc'[info.pid].raced
      OBVIOUS
    <3>1. CASE info.pid = p
      BY <1>2, <2>3, <3>1 DEF InHand
    <3>2. CASE info.pid # p
      BY <1>0, <1>1, <1>2, <2>2, <3>2 DEF EntryInv, InHand, Live
    <3> QED
      BY <3>1, <3>2
  <2>7. Listening(info.inst)' => Listening(info.inst)
    <3> SUFFICES ASSUME NEW q \in Pids, proc'[q].inst = info.inst,
                        proc'[q].st \in PreLive \cup {"live"}
                 PROVE  proc[q].inst = info.inst /\ proc[q].st \in PreLive \cup {"live"}
      BY <1>1 DEF Listening, PreLive
    <3>1. CASE q = p
      BY <1>1, <1>2, <3>1 DEF PreLive
    <3>2. CASE q # p
      BY <1>2, <3>2
    <3> QED
      BY <3>1, <3>2
  <2>8. (~Walking => entries = {}) /\ (pc = "refused" => ~Listening(info.inst)')
    BY <1>0, <2>7 DEF EntryInv
  <2> QED
    BY <1>1, <2>4, <2>5, <2>6, <2>8 DEF EntryInv, Walking, Shown, Live, Listening
<1>12. ReapInv'
  <2> SUFFICES ASSUME pc # "idle", ~reuse
               PROVE  ReapInv'
    BY <1>1 DEF ReapInv
  <2>1. /\ \A q \in Pids : ~proc[q].reused
        /\ \A q \in reaped : proc[q].st \in {"gone", "closing", "plain"} /\ q \in Pids
        /\ \A q \in reaped \ Unremovable :
              /\ file[q] = NoFile
              /\ Walking => q \notin todo /\ \A e \in entries : e.pid # q
              /\ InHand => info.pid # q
    BY <1>0 DEF ReapInv, Types
  <2>2. p \notin reaped
    BY <1>1, <2>1
  <2>3. /\ \A q \in Pids : ~proc'[q].reused
        /\ \A q \in reaped : proc'[q] = proc[q] /\ file'[q] = file[q]
    BY <1>2, <1>3, <2>1, <2>2
  <2> QED
    BY <1>1, <2>1, <2>3 DEF ReapInv, Walking, InHand
<1>13. ReachInv'
  <2>1. proc[p].inst \notin steady
    <3> SUFFICES ASSUME NEW q \in Pids, Live(q), proc[q].inst = proc[p].inst
                 PROVE  FALSE
      BY <1>0 DEF ReachInv
    <3> QED
      BY <1>0, <1>1 DEF ProcInv, Live
  <2>2. \A q \in Pids : Live(q)' /\ proc'[q].inst \in steady
                          => Live(q) /\ q # p /\ proc'[q] = proc[q]
    BY <1>2, <1>4, <2>1
  <2>3. \A i \in steady' : \E q \in Pids : Live(q)' /\ proc'[q].inst = i
    <3> SUFFICES ASSUME NEW i \in steady
                 PROVE  \E q \in Pids : Live(q)' /\ proc'[q].inst = i
      BY <1>1
    <3>1. PICK q \in Pids : Live(q) /\ proc[q].inst = i
      BY <1>0 DEF ReachInv
    <3> QED
      BY <1>2, <1>4, <2>1, <3>1
  <2>4. Walking' /\ ~reuse' =>
          \A q \in Pids : Live(q)' /\ proc'[q].inst \in steady'
                            => q \in todo' \/ \E e \in entries' : e.pid = q
    BY <1>0, <1>1, <2>2 DEF ReachInv, Walking
  <2>5. failed' => pc' = "idle"
    BY <1>0, <1>1 DEF ReachInv
  <2>6. LookupReachesLive'
    BY <1>0, <1>1, <2>2 DEF ReachInv, LookupReachesLive, Undisturbed, Wanted
  <2> QED
    BY <2>3, <2>4, <2>5, <2>6 DEF ReachInv
<1> QED
  BY <1>6, <1>7, <1>8, <1>9, <1>10, <1>11, <1>12, <1>13 DEF Inv

\* A power loss finds every file in place synced, and leaves it whole.
LEMMA PowerLossKeeps ==
    ASSUME Inv, PowerLoss
    PROVE  Inv'
<1>0. /\ Types /\ WholeInv /\ ProcInv /\ UsedInv
  BY DEF Inv
<1>1. /\ proc' = [p \in Pids |-> Gone] /\ UNCHANGED <<used, launches>>
      /\ pc' = "idle" /\ failed' = FALSE /\ entries' = {} /\ todo' = {} /\ info' = NoEntry
      /\ reaped' = {} /\ steady' = {} /\ reuse' = FALSE
  BY DEF PowerLoss
<1>2. file' = file
  <2>1. PICK torn \in SUBSET {p \in Pids : ~file[p].synced} :
           file' = [p \in Pids |-> [file[p] EXCEPT !.whole = @ /\ p \notin torn]]
    BY DEF PowerLoss
  <2>2. torn = {}
    BY <1>0 DEF WholeInv
  <2>3. ASSUME NEW p \in Pids
        PROVE  [file[p] EXCEPT !.whole = @ /\ p \notin torn] = file[p]
    <3>1. file[p] \in FileType
      BY <1>0 DEF Types
    <3> QED
      BY <2>2, <3>1 DEF FileType
  <2> QED
    BY <1>0, <2>1, <2>3 DEF Types
<1>3. /\ Gone \in ProcType /\ Gone.st = "gone" /\ Gone.inst = 0 /\ ~Gone.raced
      /\ NoEntry \in EntryType
  BY DEF Gone, ProcType, ProcStates, PreLive, NoPid, NoEntry, EntryType
<1>4. \A p \in Pids : ~Live(p)' /\ ~Fresh(p)'
  BY <1>1, <1>3 DEF Live, Fresh, PreLive
<1>5. Types' /\ WholeInv'
  BY <1>0, <1>1, <1>2, <1>3 DEF Types, WholeInv, ReaderPcs
<1>6. ProcInv'
  BY <1>0, <1>1, <1>2, <1>3 DEF ProcInv, Types
<1>7. FileInv' /\ FreshInv'
  BY <1>4 DEF FileInv, Shown, FreshInv
<1>8. UsedInv' /\ EntryInv'
  BY <1>0, <1>1, <1>2 DEF UsedInv, InHand, EntryInv, Walking
<1>9. ReapInv' /\ ReachInv'
  BY <1>1 DEF ReapInv, ReachInv, Walking, LookupReachesLive
<1> QED
  BY <1>5, <1>6, <1>7, <1>8, <1>9 DEF Inv
-----------------------------------------------------------------------------
(* The reader *)

\* A set of natural numbers has a least one.
LEMMA LeastExists ==
    ASSUME NEW S, S \subseteq Nat, S # {}
    PROVE  \E x \in S : \A y \in S : x <= y
<1>1. PICK x \in S : \A y \in S : ~ (<<y, x>> \in OpToRel(<, Nat))
  BY NatLessThanWellFounded, WFMin
<1>2. \A y \in S : ~ (y < x)
  BY <1>1 DEF OpToRel
<1> QED
  BY <1>2

\* The next path to read is one of them.
LEMMA MinIsMember ==
    ASSUME NEW S, S \subseteq Nat, S # {}
    PROVE  Min(S) \in S
BY LeastExists DEF Min

\* Of the entries that may be meant there is a newest.
LEMMA NewestIsMember ==
    ASSUME NEW S, NEW n \in Nat, S \subseteq EntryType, S # {}, \A e \in S : e.inst <= n
    PROVE  Newest(S) \in S
<1> DEFINE T == {n - e.inst : e \in S}
<1>1. \A e \in S : e.inst \in Nat /\ n - e.inst \in Nat
  BY DEF EntryType
<1>2. PICK x \in T : \A y \in T : x <= y
  BY <1>1, LeastExists
<1>3. PICK e \in S : x = n - e.inst
  BY <1>2
<1>4. \A f \in S : f.inst <= e.inst
  BY <1>1, <1>2, <1>3
<1> QED
  BY <1>4 DEF Newest

\* A step of the reader, which unlinks at most the file of a pid that no viewer
\* serves under.
LEMMA FilesKept ==
    ASSUME Inv, UNCHANGED <<proc, used, launches>>,
           \/ file' = file
           \/ \E q \in Pids : /\ file' = [file EXCEPT ![q] = NoFile]
                              /\ Live(q) => proc[q].raced
    PROVE  /\ WholeInv' /\ ProcInv' /\ FileInv' /\ file' \in [Pids -> FileType]
           /\ \A p \in Pids : file'[p] = file[p] \/ file'[p] = NoFile
<1>0. /\ WholeInv /\ ProcInv /\ FileInv /\ file \in [Pids -> FileType] /\ launches \in Nat
  BY DEF Inv, Types
<1>1. CASE file' = file
  BY <1>0, <1>1 DEF WholeInv, ProcInv, FileInv, Shown, Live
<1>2. ASSUME NEW q \in Pids, file' = [file EXCEPT ![q] = NoFile], Live(q) => proc[q].raced
      PROVE  /\ WholeInv' /\ ProcInv' /\ FileInv' /\ file' \in [Pids -> FileType]
             /\ \A p \in Pids : file'[p] = file[p] \/ file'[p] = NoFile
  <2>1. NoFile \in FileType /\ NoFile.synced /\ NoFile.whole /\ NoFile.inst = 0
    BY DEF NoFile, FileType, NoPid
  <2>2. /\ file' \in [Pids -> FileType] /\ file'[q] = NoFile
        /\ \A p \in Pids : p # q => file'[p] = file[p]
    BY <1>0, <1>2, <2>1
  <2>3. WholeInv'
    BY <1>0, <2>1, <2>2 DEF WholeInv
  <2>4. \A p \in Pids : file'[p].inst <= launches
    BY <1>0, <2>1, <2>2 DEF ProcInv
  <2>5. ProcInv'
    BY <1>0, <2>4 DEF ProcInv
  <2>6. FileInv'
    BY <1>0, <1>2, <2>2 DEF FileInv, Shown, Live
  <2> QED
    BY <2>2, <2>3, <2>5, <2>6
<1> QED
  BY <1>1, <1>2

\* A call begins.
LEMMA CallKeeps ==
    ASSUME Inv, NEW s, CallViewer(s)
    PROVE  Inv'
<1>0. /\ Types /\ FreshInv /\ UsedInv
  BY DEF Inv
<1>1. /\ UNCHANGED <<proc, used, launches, file, losses, todo, info>>
      /\ pc = "idle" /\ pc' = "glob" /\ reaped' = {} /\ entries' = {} /\ failed' = FALSE
      /\ steady' = {proc[p].inst : p \in {q \in Pids : Live(q)}}
      /\ reuse' = \E p \in Pids : proc[p].reused
  BY DEF CallViewer, viewerVars
<1>2. WholeInv' /\ ProcInv' /\ FileInv'
  BY <1>1, FilesKept
<1>3. Types'
  BY <1>0, <1>1 DEF Types, ReaderPcs
<1>4. FreshInv' /\ UsedInv' /\ EntryInv'
  BY <1>0, <1>1 DEF FreshInv, Fresh, UsedInv, EntryInv, InHand, Walking
<1>5. ReapInv'
  BY <1>1 DEF ReapInv
<1>6. ReachInv'
  BY <1>1 DEF ReachInv, Walking, Live, LookupReachesLive
<1> QED
  BY <1>2, <1>3, <1>4, <1>5, <1>6 DEF Inv

\* The directory is listed: the file of every viewer that serves is in it.
LEMMA GlobKeeps ==
    ASSUME Inv, Glob
    PROVE  Inv'
<1>0. /\ Types /\ ProcInv /\ FileInv /\ FreshInv /\ UsedInv /\ ReapInv /\ ReachInv
  BY DEF Inv
<1>1. /\ UNCHANGED <<proc, used, launches, file, losses, selector, info, reaped, failed, steady,
                     reuse>>
      /\ pc = "glob" /\ pc' = "read" /\ todo' = {p \in Pids : file[p] # NoFile} /\ entries' = {}
  BY DEF Glob, viewerVars, Exists
<1>2. WholeInv' /\ ProcInv' /\ FileInv'
  BY <1>1, FilesKept DEF Inv
<1>3. Types'
  BY <1>0, <1>1 DEF Types, ReaderPcs
<1>4. FreshInv'
  BY <1>0, <1>1 DEF FreshInv, Fresh, InHand
<1>5. UsedInv' /\ EntryInv'
  BY <1>0, <1>1 DEF UsedInv, EntryInv, InHand, Walking
<1>6. ReapInv'
  BY <1>0, <1>1 DEF ReapInv, InHand, Walking
<1>7. ReachInv'
  <2>1. ASSUME ~reuse, NEW p \in Pids, Live(p), proc[p].inst \in steady
        PROVE  file[p] # NoFile
    <3>1. ~proc[p].raced
      BY <1>0, <1>1, <2>1 DEF ReapInv, ProcInv
    <3>2. file[p].inst = proc[p].inst
      BY <1>0, <2>1, <3>1 DEF FileInv, Shown
    <3>3. proc[p].inst > 0
      BY <1>0, <2>1 DEF ProcInv, Live
    <3> QED
      BY <3>2, <3>3 DEF NoFile
  <2>2. /\ failed' => pc' = "idle"
        /\ ~failed
    BY <1>0, <1>1 DEF ReachInv
  <2> QED
    BY <1>0, <1>1, <2>1, <2>2 DEF ReachInv, Walking, Live, LookupReachesLive
<1> QED
  BY <1>2, <1>3, <1>4, <1>5, <1>6, <1>7 DEF Inv

\* The next file is read: it shows the viewer that serves under its pid, or is gone.
LEMMA ReadFileKeeps ==
    ASSUME Inv, ReadFile
    PROVE  Inv'
<1>0. /\ Types /\ WholeInv /\ ProcInv /\ FileInv /\ FreshInv /\ UsedInv /\ EntryInv
      /\ ReapInv /\ ReachInv
  BY DEF Inv
<1> DEFINE p == Min(todo)
<1>1. p \in todo /\ p \in Pids /\ p \in Nat
  BY <1>0, MinIsMember, DiscoveryAssumption DEF Types, ReadFile
<1> HIDE DEF p
<1>2. /\ UNCHANGED <<proc, used, launches, file, losses, selector, todo, entries, reaped, failed,
                     steady, reuse>>
      /\ pc = "read" /\ info' = Entry(p)
      /\ pc' = IF file[p] # NoFile /\ file[p].whole THEN "probe" ELSE "drop"
  BY DEF ReadFile, viewerVars, Exists, p
<1>3. /\ info'.pid = p /\ info'.inst = file[p].inst /\ info'.debugger = file[p].debugger
      /\ info' \in EntryType
  BY <1>0, <1>1, <1>2 DEF Entry, EntryType, Types, FileType
<1>4. WholeInv' /\ ProcInv' /\ FileInv'
  BY <1>2, FilesKept
<1>5. Types'
  BY <1>0, <1>2, <1>3 DEF Types, ReaderPcs
<1>6. FreshInv'
  BY <1>0, <1>1, <1>2, <1>3 DEF FreshInv, Fresh
<1>7. UsedInv'
  BY <1>0, <1>1, <1>2, <1>3 DEF UsedInv
<1>8. EntryInv'
  <2>1. \A e \in entries' : e.inst <= launches' /\ Shown(e.pid, e)'
    BY <1>0, <1>2 DEF EntryInv, Shown, Live
  <2>2. info'.inst <= launches' /\ Shown(info.pid, info)'
    BY <1>0, <1>1, <1>2, <1>3 DEF ProcInv, FileInv, Shown, Live
  <2>3. pc' = "drop" => (Live(info.pid)' => proc'[info'.pid].raced)
    <3> SUFFICES ASSUME pc' = "drop", Live(p), ~proc[p].raced
                 PROVE  FALSE
      BY <1>2, <1>3 DEF Live
    <3>1. file[p] = NoFile
      BY <1>0, <1>1, <1>2 DEF WholeInv
    <3>2. proc[p].inst > 0 /\ file[p].inst = proc[p].inst
      BY <1>0, <1>1 DEF ProcInv, Live, FileInv, Shown
    <3> QED
      BY <3>1, <3>2 DEF NoFile
  <2> QED
    BY <1>2, <2>1, <2>2, <2>3 DEF EntryInv, Walking
<1>9. ReapInv'
  BY <1>0, <1>1, <1>2, <1>3 DEF ReapInv, Walking
<1>10. ReachInv'
  BY <1>0, <1>2 DEF ReachInv, Walking, Live, LookupReachesLive
<1> QED
  BY <1>4, <1>5, <1>6, <1>7, <1>8, <1>9, <1>10 DEF Inv

\* The entry in hand is kept when there is a process under its pid.
LEMMA ProbeKeeps ==
    ASSUME Inv, Probe
    PROVE  Inv'
<1>0. /\ Types /\ WholeInv /\ ProcInv /\ FileInv /\ FreshInv /\ UsedInv /\ EntryInv
      /\ ReapInv /\ ReachInv
  BY DEF Inv
<1>1. /\ UNCHANGED <<proc, used, launches, file, losses, selector, reaped, failed, steady, reuse>>
      /\ pc = "probe" /\ info \in EntryType /\ info.pid \in Pids
  BY <1>0 DEF Probe, viewerVars, Types, UsedInv, InHand
<1>2. WholeInv' /\ ProcInv' /\ FileInv'
  BY <1>1, FilesKept
<1>3. CASE proc[info.pid].st = "gone" /\ pc' = "drop" /\ UNCHANGED <<entries, todo, info>>
  <2>1. Types' /\ FreshInv' /\ UsedInv'
    BY <1>0, <1>1, <1>3 DEF Types, ReaderPcs, FreshInv, Fresh, UsedInv, InHand
  <2>2. EntryInv'
    BY <1>0, <1>1, <1>3 DEF EntryInv, Walking, Shown, Live
  <2>3. ReapInv'
    BY <1>0, <1>1, <1>3 DEF ReapInv, Walking, InHand
  <2>4. ReachInv'
    BY <1>0, <1>1, <1>3 DEF ReachInv, Walking, Live, LookupReachesLive
  <2> QED
    BY <1>2, <2>1, <2>2, <2>3, <2>4 DEF Inv
<1>4. CASE /\ entries' = entries \cup {info} /\ todo' = todo \ {info.pid}
           /\ pc' = "read" /\ info' = NoEntry
  <2>1. NoEntry \in EntryType
    BY DEF NoEntry, EntryType, NoPid
  <2>2. Types'
    BY <1>0, <1>1, <1>4, <2>1 DEF Types, ReaderPcs
  <2>3. FreshInv'
    BY <1>0, <1>1, <1>4 DEF FreshInv, Fresh, InHand
  <2>4. UsedInv'
    BY <1>0, <1>1, <1>4 DEF UsedInv, InHand
  <2>5. EntryInv'
    BY <1>0, <1>1, <1>4 DEF EntryInv, Walking, Shown, Live
  <2>6. ReapInv'
    BY <1>0, <1>1, <1>4 DEF ReapInv, Walking, InHand
  <2>7. ReachInv'
    BY <1>0, <1>1, <1>4 DEF ReachInv, Walking, Live, LookupReachesLive
  <2> QED
    BY <1>2, <2>2, <2>3, <2>4, <2>5, <2>6, <2>7 DEF Inv
<1> QED
  BY <1>3, <1>4 DEF Probe

\* Only what no viewer serves under is unlinked, and left out of the walk.
LEMMA DropKeeps ==
    ASSUME Inv, DropDead
    PROVE  Inv'
<1>0. /\ Types /\ WholeInv /\ ProcInv /\ FileInv /\ FreshInv /\ UsedInv /\ EntryInv
      /\ ReapInv /\ ReachInv
  BY DEF Inv
<1>1. /\ UNCHANGED <<proc, used, launches, losses, selector, entries, reaped, failed, steady, reuse>>
      /\ pc = "drop" /\ pc' = "read" /\ info' = NoEntry /\ todo' = todo \ {info.pid}
      /\ info.pid \in Pids
      /\ Live(info.pid) => proc[info.pid].raced
  BY <1>0 DEF DropDead, UsedInv, InHand, EntryInv
<1>2. file' = file \/ file' = [file EXCEPT ![info.pid] = NoFile]
  BY DEF DropDead, Unlinked
<1>3. /\ WholeInv' /\ ProcInv' /\ FileInv' /\ file' \in [Pids -> FileType]
      /\ \A p \in Pids : file'[p] = file[p] \/ file'[p] = NoFile
  BY <1>1, <1>2, FilesKept
<1>4. NoEntry \in EntryType
  BY DEF NoEntry, EntryType, NoPid
<1>5. Types'
  BY <1>0, <1>1, <1>3, <1>4 DEF Types, ReaderPcs
<1>6. FreshInv'
  BY <1>0, <1>1, <1>3 DEF FreshInv, Fresh, InHand
<1>7. UsedInv'
  BY <1>0, <1>1, <1>3 DEF UsedInv, InHand
<1>8. EntryInv'
  BY <1>0, <1>1 DEF EntryInv, Walking, Shown, Live
<1>9. ReapInv'
  <2>1. \A q \in reaped \ Unremovable : q \in Pids
    BY <1>0 DEF Types
  <2> QED
    BY <1>0, <1>1, <1>3, <2>1 DEF ReapInv, Walking, InHand
<1>10. ReachInv'
  <2>1. ASSUME ~reuse, NEW p \in Pids, Live(p)
        PROVE  p # info.pid
    <3>1. ~proc[p].raced
      BY <1>0, <1>1, <2>1 DEF ReapInv, ProcInv
    <3> QED
      BY <1>1, <2>1, <3>1
  <2> QED
    BY <1>0, <1>1, <2>1 DEF ReachInv, Walking, Live, LookupReachesLive
<1> QED
  BY <1>3, <1>5, <1>6, <1>7, <1>8, <1>9, <1>10 DEF Inv

\* The walk is over: a wanted viewer that served throughout is a candidate, so
\* that there is one to connect to.
LEMMA ResolveKeeps ==
    ASSUME Inv, Resolve
    PROVE  Inv'
<1>0. /\ Types /\ ProcInv /\ FileInv /\ FreshInv /\ UsedInv /\ EntryInv
      /\ ReapInv /\ ReachInv
  BY DEF Inv
<1>1. /\ UNCHANGED <<proc, used, launches, file, losses, selector, todo, reaped, steady, reuse>>
      /\ pc = "read" /\ todo = {} /\ entries' = {}
      /\ entries \subseteq EntryType /\ launches \in Nat
  BY <1>0 DEF Resolve, viewerVars, Types
<1>2. WholeInv' /\ ProcInv' /\ FileInv'
  BY <1>1, FilesKept
<1>3. Candidates \subseteq entries
  BY DEF Candidates
<1>4. CASE Candidates = {} /\ pc' = "idle" /\ failed' = TRUE /\ info' = NoEntry
  <2>1. NoEntry \in EntryType
    BY DEF NoEntry, EntryType, NoPid
  <2>2. Types'
    BY <1>0, <1>1, <1>4, <2>1 DEF Types, ReaderPcs
  <2>3. FreshInv' /\ UsedInv' /\ EntryInv' /\ ReapInv'
    BY <1>0, <1>1, <1>4 DEF FreshInv, Fresh, UsedInv, EntryInv, ReapInv, Walking, InHand
  <2>4. ASSUME ~reuse, NEW p \in Pids, Live(p), proc[p].inst \in steady, Wanted(p)
        PROVE  FALSE
    <3>1. PICK e \in entries : e.pid = p
      BY <1>0, <1>1, <2>4 DEF ReachInv, Walking
    <3>2. ~proc[p].raced
      BY <1>0, <1>1, <2>4 DEF ReapInv, ProcInv
    <3>3. e.debugger = proc[p].debugger /\ proc[p].st = "live"
      BY <1>0, <2>4, <3>1, <3>2 DEF EntryInv, Shown, Live
    <3>4. CASE selector = NoPid
      BY <1>4, <3>1, <3>4 DEF Candidates
    <3>5. CASE selector # NoPid /\ {f \in entries : f.pid = selector} # {}
      BY <1>4, <3>5 DEF Candidates
    <3>6. CASE selector # NoPid /\ {f \in entries : f.pid = selector} = {}
      <4>1. selector = e.debugger
        BY <2>4, <3>1, <3>3, <3>6 DEF Wanted
      <4>2. e \in {f \in entries : f.debugger = selector}
        BY <3>1, <4>1
      <4>3. Candidates =
              IF /\ Cardinality({f \in entries : f.debugger = selector}) > 1
                 /\ {f \in {g \in entries : g.debugger = selector} : proc[f.pid].st # "gone"} # {}
              THEN {f \in {g \in entries : g.debugger = selector} : proc[f.pid].st # "gone"}
              ELSE {f \in entries : f.debugger = selector}
        BY <3>6 DEF Candidates
      <4> QED
        BY <1>4, <4>2, <4>3
    <3> QED
      BY <3>4, <3>5, <3>6
  <2>5. ReachInv'
    BY <1>0, <1>1, <1>4, <2>4 DEF ReachInv, Walking, Live, LookupReachesLive, Undisturbed, Wanted
  <2> QED
    BY <1>2, <2>2, <2>3, <2>5 DEF Inv
<1>5. CASE /\ Candidates # {} /\ pc' = "connect" /\ info' = Newest(Candidates)
           /\ UNCHANGED failed
  <2>1. \A e \in Candidates : e.inst <= launches
    BY <1>0, <1>3 DEF EntryInv
  <2>2. Newest(Candidates) \in Candidates
    BY <1>1, <1>3, <1>5, <2>1, NewestIsMember
  <2>3. info' \in entries /\ info' \in EntryType
    BY <1>1, <1>3, <1>5, <2>2
  <2>4. Types'
    BY <1>0, <1>1, <1>5, <2>3 DEF Types, ReaderPcs
  <2>5. FreshInv' /\ UsedInv'
    BY <1>0, <1>1, <1>5, <2>3 DEF FreshInv, Fresh, UsedInv, InHand
  <2>6. EntryInv'
    BY <1>0, <1>1, <1>5, <2>3 DEF EntryInv, Walking, Shown, Live
  <2>7. ReapInv'
    BY <1>0, <1>1, <1>5, <2>3 DEF ReapInv, Walking, InHand
  <2>8. ReachInv'
    BY <1>0, <1>1, <1>5 DEF ReachInv, Walking, Live, LookupReachesLive
  <2> QED
    BY <1>2, <2>4, <2>5, <2>6, <2>7, <2>8 DEF Inv
<1> QED
  BY <1>4, <1>5 DEF Resolve

\* The call is served, or its connection is refused.
LEMMA ConnectKeeps ==
    ASSUME Inv, Connect
    PROVE  Inv'
<1>0. /\ Types /\ ProcInv /\ FileInv /\ FreshInv /\ UsedInv /\ EntryInv
      /\ ReapInv /\ ReachInv
  BY DEF Inv
<1>1. /\ UNCHANGED <<proc, used, launches, file, losses, todo, entries, failed>>
      /\ pc = "connect" /\ ~failed
  BY <1>0 DEF Connect, viewerVars, ReachInv
<1>2. WholeInv' /\ ProcInv' /\ FileInv'
  BY <1>1, FilesKept
<1>3. CASE /\ pc' = "idle" /\ info' = NoEntry /\ reaped' = {} /\ steady' = {} /\ reuse' = FALSE
  <2>1. NoEntry \in EntryType
    BY DEF NoEntry, EntryType, NoPid
  <2>2. Types'
    BY <1>0, <1>1, <1>3, <2>1 DEF Types, ReaderPcs
  <2>3. FreshInv' /\ UsedInv' /\ EntryInv' /\ ReapInv'
    BY <1>0, <1>1, <1>3 DEF FreshInv, Fresh, UsedInv, EntryInv, ReapInv, Walking, InHand
  <2>4. ReachInv'
    BY <1>1, <1>3 DEF ReachInv, Walking, LookupReachesLive
  <2> QED
    BY <1>2, <2>2, <2>3, <2>4 DEF Inv
<1>4. CASE /\ ~Listening(info.inst) /\ pc' = "refused"
           /\ UNCHANGED <<info, reaped, steady, selector, reuse>>
  <2>1. Types' /\ FreshInv' /\ UsedInv'
    BY <1>0, <1>1, <1>4 DEF Types, ReaderPcs, FreshInv, Fresh, UsedInv, InHand
  <2>2. EntryInv'
    BY <1>0, <1>1, <1>4 DEF EntryInv, Walking, Shown, Live, Listening
  <2>3. ReapInv'
    BY <1>0, <1>1, <1>4 DEF ReapInv, Walking, InHand
  <2>4. ReachInv'
    BY <1>0, <1>1, <1>4 DEF ReachInv, Walking, Live, LookupReachesLive
  <2> QED
    BY <1>2, <2>1, <2>2, <2>3, <2>4 DEF Inv
<1> QED
  BY <1>3, <1>4 DEF Connect

\* A viewer that refuses does not serve: its file may be unlinked.  A path comes
\* twice only when its pid has changed hands or the file cannot be unlinked.
LEMMA RefusedKeeps ==
    ASSUME Inv, Refused
    PROVE  Inv'
<1>0. /\ Types /\ ProcInv /\ FileInv /\ FreshInv /\ UsedInv /\ EntryInv
      /\ ReapInv /\ ReachInv
  BY DEF Inv
<1>1. /\ UNCHANGED <<proc, used, launches, losses, selector, todo, entries, steady, reuse>>
      /\ pc = "refused" /\ ~failed /\ info.pid \in Pids /\ info.pid \in used
      /\ entries = {}
  BY <1>0 DEF Refused, ReachInv, UsedInv, InHand, EntryInv, Walking
<1>2. Live(info.pid) => proc[info.pid].raced
  <2> SUFFICES ASSUME Live(info.pid), ~proc[info.pid].raced
               PROVE  FALSE
    OBVIOUS
  <2>1. info.inst = proc[info.pid].inst
    BY <1>0, <1>1 DEF EntryInv, Shown
  <2> QED
    BY <1>0, <1>1, <2>1 DEF EntryInv, Listening, Live
<1>3. CASE info.pid \in reaped
  <2>1. /\ pc' = "idle" /\ failed' = TRUE /\ info' = NoEntry /\ UNCHANGED <<file, reaped>>
    BY <1>3 DEF Refused
  <2>2. WholeInv' /\ ProcInv' /\ FileInv'
    BY <1>1, <2>1, FilesKept
  <2>3. NoEntry \in EntryType
    BY DEF NoEntry, EntryType, NoPid
  <2>4. Types'
    BY <1>0, <1>1, <2>1, <2>3 DEF Types, ReaderPcs
  <2>5. FreshInv' /\ UsedInv' /\ EntryInv' /\ ReapInv'
    BY <1>0, <1>1, <2>1 DEF FreshInv, Fresh, UsedInv, EntryInv, ReapInv, Walking, InHand
  <2>6. ~Undisturbed'
    <3>1. ~reuse => info.pid \in Unremovable
      BY <1>0, <1>1, <1>3 DEF ReapInv, InHand
    <3> QED
      BY <1>1, <1>3, <2>1, <3>1 DEF Undisturbed
  <2>7. ReachInv'
    BY <1>0, <1>1, <2>1, <2>6 DEF ReachInv, Walking, Live, LookupReachesLive
  <2> QED
    BY <2>2, <2>4, <2>5, <2>7 DEF Inv
<1>4. CASE info.pid \notin reaped
  <2>1. /\ pc' = "glob" /\ reaped' = reaped \cup {info.pid} /\ UNCHANGED <<failed, info>>
        /\ file' = Unlinked(info.pid)
    BY <1>4 DEF Refused
  <2>2. file' = file \/ file' = [file EXCEPT ![info.pid] = NoFile]
    BY <2>1 DEF Unlinked
  <2>3. /\ WholeInv' /\ ProcInv' /\ FileInv' /\ file' \in [Pids -> FileType]
        /\ \A p \in Pids : file'[p] = file[p] \/ file'[p] = NoFile
    BY <1>1, <1>2, <2>2, FilesKept
  <2>4. Types'
    BY <1>0, <1>1, <2>1, <2>3 DEF Types, ReaderPcs
  <2>5. FreshInv'
    BY <1>0, <1>1, <2>1, <2>3 DEF FreshInv, Fresh, InHand
  <2>6. UsedInv'
    BY <1>0, <1>1, <2>1, <2>3 DEF UsedInv, InHand
  <2>7. EntryInv'
    BY <1>1, <2>1 DEF EntryInv, Walking
  <2>8. ReapInv'
    <3> SUFFICES ASSUME ~reuse
                 PROVE  ReapInv'
      BY <1>1 DEF ReapInv
    <3>1. /\ \A p \in Pids : ~proc[p].reused
          /\ \A q \in reaped : proc[q].st \in {"gone", "closing", "plain"} /\ q \in Pids
          /\ \A q \in reaped \ Unremovable : file[q] = NoFile
      BY <1>0, <1>1 DEF ReapInv, Types
    <3>2. proc[info.pid].st \in {"gone", "closing", "plain"}
      <4>1. proc[info.pid].st \in ProcStates
        BY <1>0, <1>1 DEF Types, ProcType
      <4>2. ~Live(info.pid)
        BY <1>0, <1>1, <1>2, <3>1 DEF ProcInv
      <4>3. ~Fresh(info.pid)
        BY <1>0, <1>1 DEF FreshInv, InHand
      <4> QED
        BY <1>1, <3>1, <4>1, <4>2, <4>3 DEF ProcStates, Live, Fresh
    <3>3. info.pid \notin Unremovable => file'[info.pid] = NoFile
      BY <1>0, <1>1, <2>1 DEF Unlinked, Types
    <3>4. \A q \in reaped' \ Unremovable : file'[q] = NoFile
      BY <2>1, <2>3, <3>1, <3>3
    <3> QED
      BY <1>1, <2>1, <3>1, <3>2, <3>4 DEF ReapInv, Walking, InHand
  <2>9. ReachInv'
    BY <1>0, <1>1, <2>1 DEF ReachInv, Walking, Live, LookupReachesLive
  <2> QED
    BY <2>3, <2>4, <2>5, <2>6, <2>7, <2>8, <2>9 DEF Inv
<1> QED
  BY <1>3, <1>4
-----------------------------------------------------------------------------
(* The invariant of the whole *)

\* It holds before any viewer has started.
LEMMA InitInv == Init => Inv
<1> SUFFICES ASSUME Init PROVE Inv
  OBVIOUS
<1>1. /\ Gone \in ProcType /\ Gone.st = "gone" /\ Gone.inst = 0 /\ ~Gone.raced
      /\ NoFile \in FileType /\ NoFile.synced /\ NoFile.whole /\ NoFile.inst = 0
      /\ NoEntry \in EntryType
  BY DEF Gone, ProcType, ProcStates, PreLive, NoPid, NoFile, FileType, NoEntry, EntryType
<1>2. Types
  BY <1>1 DEF Init, Types, ReaderPcs
<1>3. WholeInv /\ ProcInv
  BY <1>1 DEF Init, WholeInv, ProcInv
<1>4. FileInv /\ FreshInv
  BY <1>1 DEF Init, FileInv, Shown, Live, FreshInv, Fresh, PreLive
<1>5. UsedInv /\ EntryInv
  BY DEF Init, UsedInv, EntryInv, InHand, Walking
<1>6. ReapInv /\ ReachInv
  BY DEF Init, ReapInv, ReachInv, Walking, LookupReachesLive
<1> QED
  BY <1>2, <1>3, <1>4, <1>5, <1>6 DEF Inv

\* Every step of the viewers, of the machine and of the reader keeps it.
LEMMA NextInv == Inv /\ [Next]_vars => Inv'
<1> SUFFICES ASSUME Inv, [Next]_vars PROVE Inv'
  OBVIOUS
<1>1. ASSUME NEW p \in Pids, NEW d \in Debuggers \cup {NoPid}, Launch(p, d)
      PROVE  Inv'
  <2>1. d \in Nat
    BY DiscoveryAssumption DEF NoPid
  <2> QED
    BY <1>1, <2>1, LaunchKeeps
<1>2. ASSUME NEW p \in Pids,
             \/ WriteTemp(p) \/ SyncTemp(p) \/ PublishFails(p) \/ Rename(p)
             \/ StopAccepting(p) \/ RemoveFile(p) \/ Exit(p)
      PROVE  Inv'
  BY <1>2, ViewerKeeps, RenameKeeps
<1>3. CASE PowerLoss
  BY <1>3, PowerLossKeeps
<1>4. CASE \E s \in {NoPid} \cup Pids \cup Debuggers : CallViewer(s)
  BY <1>4, CallKeeps
<1>5. CASE Reader
  BY <1>5, GlobKeeps, ReadFileKeeps, ProbeKeeps, DropKeeps, ResolveKeeps, ConnectKeeps,
     RefusedKeeps DEF Reader
<1>6. CASE UNCHANGED vars
  <2>1. Types' /\ WholeInv' /\ ProcInv' /\ FileInv'
    BY <1>6 DEF Inv, Types, WholeInv, ProcInv, FileInv, Shown, Live, vars, viewerVars, callVars
  <2>2. FreshInv' /\ UsedInv' /\ EntryInv'
    BY <1>6 DEF Inv, FreshInv, Fresh, UsedInv, EntryInv, Shown, Live, Listening, InHand, Walking,
                vars, viewerVars, callVars
  <2>3. ReapInv' /\ ReachInv'
    BY <1>6 DEF Inv, ReapInv, ReachInv, InHand, Walking, Live, LookupReachesLive, Undisturbed,
                Wanted, vars, viewerVars, callVars
  <2> QED
    BY <2>1, <2>2, <2>3 DEF Inv
<1> QED
  BY <1>1, <1>2, <1>3, <1>4, <1>5, <1>6 DEF Next

\* It holds in every state.
LEMMA Invariant == Spec => []Inv
BY InitInv, NextInv, PTL DEF Spec

\* write_discovery_atomic() syncs before it renames, so that no crash, of a
\* viewer or of the machine, leaves half a file under the name the reader finds.
THEOREM FilesAreWhole == Spec => []NeverTorn
<1>1. Inv => NeverTorn
  BY DEF Inv, WholeInv, NeverTorn
<1> QED
  BY <1>1, Invariant, PTL

\* A viewer that serves keeps its own discovery file, whatever _reap() unlinks,
\* but for the one that published in the middle of a call under a used pid.
THEOREM LiveStaysDiscoverable == Spec => []LiveIsDiscoverable
<1>1. Inv => LiveIsDiscoverable
  BY DEF Inv, FileInv, Shown, LiveIsDiscoverable
<1> QED
  BY <1>1, Invariant, PTL

\* _call_viewer() fails only when no viewer that it could have meant served from
\* its beginning to its end, however many stale files there were.
THEOREM LookupSucceeds == Spec => []LookupReachesLive
<1>1. Inv => LookupReachesLive
  BY DEF Inv, ReachInv
<1> QED
  BY <1>1, Invariant, PTL
=============================================================================
