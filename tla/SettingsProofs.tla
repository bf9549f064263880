--------------------------- MODULE SettingsProofs ---------------------------
(***************************************************************************)
(* Theorems about Settings, for any number of windows, symbols and starts, *)
(* any lease and any debounce: the file is only ever replaced as a whole,  *)
(* or torn by a window that lost its own bytes at the close (the           *)
(* refinement of SharedFile), and a window that was closed, alone and with *)
(* its last save done, leaves behind what it owes the next session.        *)
(***************************************************************************)
EXTENDS Settings, TLAPS

Snapshot == [size : Nat, previous_buffers : [Symbols -> Nat]]

PCs == {"off", "idle", "frame", "save", "write", "close", "rename", "exited"}

Window == [pc : PCs, model : SUBSET (Symbols \cup Files), size : Nat,
           seen : SUBSET Symbols, prev_buffers : [Symbols -> Nat],
           current : Snapshot, dirty : BOOLEAN, last_save : Int, exiting : BOOLEAN,
           owed : [Symbols -> Nat], alone : BOOLEAN, failed : BOOLEAN,
           torn : BOOLEAN]

\* The types.
TypeOK ==
    /\ file \in Snapshot \cup {Missing, Partial}
    /\ tmp \in [Windows -> Snapshot \cup {Missing, Partial}]
    /\ clock \in Nat
    /\ win \in [Windows -> Window]
    /\ starts \in Nat /\ changes \in Nat /\ failures \in Nat

\* What a window is about to rename is the snapshot it is saving, whole unless it
\* lost bytes of it itself, when it closed the file; until then the temporary file
\* is the empty one it opened.
RenamesSnapshot ==
    \A w \in Windows :
        /\ win[w].pc \in {"write", "close"} => tmp[w] = Partial
        /\ win[w].pc = "rename" => tmp[w] = IF win[w].torn THEN Partial ELSE win[w].current
        /\ win[w].torn => win[w].pc = "rename"

\* While a window is the only one, no other can touch the file.
AloneExcludes ==
    \A w \in Windows : win[w].alone => \A v \in Windows \ {w} : ~Running(v)

\* Two expiry times that restore the same at second now and ever after.
SameLease(a, b, now) == a = b \/ (a <= now /\ b <= now)

\* Nothing is owed for a buffer that was deleted, and what was never loaded is
\* still what the former session left.
MergeInputs(r, now) ==
    \A n \in Symbols :
        /\ n \in r.seen \ r.model => r.owed[n] = 0
        /\ n \notin r.seen => SameLease(r.prev_buffers[n], r.owed[n], now)

\* Outside a frame the saver's copy is worth what is owed.
CopyIsOwed(r, now) ==
    r.pc \notin {"off", "frame"} =>
        \A n \in Symbols : SameLease(r.current.previous_buffers[n], r.owed[n], now)

\* What is neither dirty nor being saved is what the next start would load.
CleanIsSaved(r, loads) ==
    (r.alone /\ ~r.failed /\ ~r.dirty /\ r.pc \in {"idle", "frame", "exited"}) =>
        /\ loads.size = apply_window_section(r.current.size)
        /\ loads.previous_buffers = r.current.previous_buffers

\* A window that is saving has taken the dirty flag back; one that exits is done.
FlagTaken(r) == r.pc \in {"save", "write", "close", "rename", "exited"} => ~r.dirty

\* What a window's record keeps of its promise at second now, when a start would
\* load these settings.
Kept(r, now, loads) ==
    MergeInputs(r, now) /\ CopyIsOwed(r, now) /\ CleanIsSaved(r, loads) /\ FlagTaken(r)

\* With TypeOK and RenamesSnapshot, the inductive invariant of SessionRemembered.
Promise == AloneExcludes /\ \A w \in Windows : Kept(win[w], clock, load)
-----------------------------------------------------------------------------
\* What the loader makes of the file is a snapshot with a usable size.
LEMMA LoadOK ==
    ASSUME TypeOK
    PROVE  load \in Snapshot
<1>1. CASE file \in {Missing, Partial}
  BY <1>1 DEF load, Defaults, Snapshot, DEFAULT_SIZE, NoBuffers
<1>2. CASE file \in Snapshot
  <2>1. apply_window_section(file.size) \in Nat
    <3>1. file.size \in Nat
      BY <1>2 DEF Snapshot
    <3>2. ASSUME NEW k \in Nat
          PROVE  apply_window_section(k) \in Nat
      BY SMT DEF apply_window_section, DEFAULT_SIZE
    <3> QED
      BY <3>1, <3>2, SMT
  <2>2. [file EXCEPT !.size = apply_window_section(@)] \in Snapshot
    BY <1>2, <2>1 DEF Snapshot
  <2>3. Defaults \in Snapshot
    BY DEF Defaults, Snapshot, DEFAULT_SIZE, NoBuffers
  <2> QED
    BY <2>2, <2>3 DEF load
<1> QED
  BY <1>1, <1>2 DEF TypeOK

\* The record of a window that is not running.
LEMMA OffOK == Off \in Window
<1>1. Defaults \in Snapshot
  BY DEF Defaults, Snapshot, DEFAULT_SIZE, NoBuffers
<1> QED
  BY <1>1 DEF Off, Window, PCs, DEFAULT_SIZE, NoBuffers

\* merge_previous_buffers() yields a list.
LEMMA MergeOK ==
    ASSUME NEW prior \in [Symbols -> Nat], NEW loaded, NEW seen, clock \in Nat
    PROVE  merge_previous_buffers(prior, loaded, seen, clock) \in [Symbols -> Nat]
BY SettingsAssumption DEF merge_previous_buffers

\* A step that gives one window a well typed record.
LEMMA UpdateOK ==
    ASSUME TypeOK, NEW w \in Windows, NEW r \in Window, Update(w, r),
           file' \in Snapshot \cup {Missing, Partial},
           tmp' \in [Windows -> Snapshot \cup {Missing, Partial}],
           clock' \in Nat, starts' \in Nat, changes' \in Nat, failures' \in Nat
    PROVE  TypeOK'
<1>1. win' \in [Windows -> Window]
  BY DEF TypeOK, Update
<1> QED
  BY <1>1 DEF TypeOK

\* persist_settings_if_dirty() leaves a well typed window behind.
LEMMA UpdateSaverOK ==
    ASSUME NEW r \in Window, NEW live \in Snapshot, clock \in Nat
    PROVE  update(r, live) \in Window
<1> DEFINE dirty == r.dirty \/ live # r.current
           due == dirty /\ clock - r.last_save >= DebounceS
<1>1. /\ (dirty /\ ~due) \in BOOLEAN
      /\ (IF due THEN clock ELSE r.last_save) \in Int
      /\ (IF due THEN "save" ELSE "idle") \in PCs
  BY DEF Window, PCs
<1>2. update(r, live) = [r EXCEPT !.current = live, !.dirty = dirty /\ ~due,
                                  !.last_save = IF due THEN clock ELSE @,
                                  !.pc = IF due THEN "save" ELSE "idle"]
  BY DEF update
<1> HIDE DEF dirty, due
<1> QED
  BY <1>1, <1>2 DEF Window

\* The steps of a save up to the rename.
WritesTmp(w) == OpenTmp(w) \/ WriteTmp(w) \/ CloseTmp(w) \/ CloseFails(w)

\* A window without a temporary file in hand.
NotSaving(r) == r.pc \notin {"write", "close", "rename"} /\ ~r.torn

\* Every step keeps the types, and what is renamed is the snapshot being saved.
LEMMA TypeStep == TypeOK /\ RenamesSnapshot /\ [Next]_vars => TypeOK' /\ RenamesSnapshot'
<1> SUFFICES ASSUME TypeOK, RenamesSnapshot PROVE [Next]_vars => TypeOK' /\ RenamesSnapshot'
  OBVIOUS
<1>0. /\ file \in Snapshot \cup {Missing, Partial}
      /\ tmp \in [Windows -> Snapshot \cup {Missing, Partial}]
      /\ win \in [Windows -> Window]
      /\ clock \in Nat /\ starts \in Nat /\ changes \in Nat /\ failures \in Nat
  BY DEF TypeOK
<1>1. ASSUME NEW w \in Windows, Start(w) PROVE TypeOK' /\ RenamesSnapshot'
  <2>1. load \in Snapshot /\ Off \in Window
    BY LoadOK, OffOK
  <2>2. ASSUME NEW v \in Windows \ {w}
        PROVE  /\ win'[v] \in Window /\ win'[v].pc = win[v].pc
               /\ win'[v].current = win[v].current /\ win'[v].torn = win[v].torn
    <3>1. win'[v] = [win[v] EXCEPT !.alone = FALSE]
      BY <1>1 DEF Start
    <3> QED
      BY <1>0, <3>1, ZenonT(30) DEF Window
  <2>3. win'[w] \in Window /\ win'[w].pc = "idle" /\ ~win'[w].torn
    <3>1. win'[w] = [Off EXCEPT !.pc = "idle", !.size = load.size, !.current = load,
                                !.prev_buffers = load.previous_buffers,
                                !.last_save = -DebounceS,
                                !.owed = load.previous_buffers,
                                !.alone = \A v2 \in Windows \ {w} : ~Running(v2)]
      BY <1>1 DEF Start
    <3>2. -DebounceS \in Int
      BY SettingsAssumption
    <3>3. (\A v2 \in Windows \ {w} : ~Running(v2)) \in BOOLEAN
      OBVIOUS
    <3>4. ~Off.torn
      BY DEF Off
    <3> QED
      BY <2>1, <3>1, <3>2, <3>3, <3>4 DEF Window, Snapshot, PCs
  <2>4. win' = [v \in Windows |-> win'[v]]
    BY <1>1 DEF Start
  <2>5. win' \in [Windows -> Window]
    BY <2>2, <2>3, <2>4
  <2>6. TypeOK'
    <3>1. UNCHANGED <<file, tmp, clock, changes, failures>> /\ starts' = starts + 1
      BY <1>1 DEF Start
    <3> QED
      BY <1>0, <2>5, <3>1 DEF TypeOK
  <2>7. RenamesSnapshot'
    <3>1. tmp' = tmp
      BY <1>1 DEF Start
    <3> QED
      BY <2>2, <2>3, <3>1 DEF RenamesSnapshot
  <2> QED
    BY <2>6, <2>7
<1>2. ASSUME NEW w \in Windows, NEW r \in Window, Update(w, r), NotSaving(r),
             UNCHANGED <<file, tmp, clock, starts, failures>>, changes' \in Nat
      PROVE  TypeOK' /\ RenamesSnapshot'
  <2>1. TypeOK'
    BY <1>0, <1>2, UpdateOK
  <2>2. RenamesSnapshot'
    BY <1>0, <1>2 DEF RenamesSnapshot, Update, NotSaving
  <2> QED
    BY <2>1, <2>2
<1>3. ASSUME NEW w \in Windows, BeginFrame(w) PROVE TypeOK' /\ RenamesSnapshot'
  <2> DEFINE r == [win[w] EXCEPT !.pc = "frame"]
  <2>1. r \in Window /\ r.pc = "frame" /\ r.torn = win[w].torn
    BY <1>0, ZenonT(30) DEF Window, PCs
  <2>2. /\ Update(w, r) /\ UNCHANGED <<file, tmp, clock, starts, changes, failures>>
        /\ win[w].pc = "idle"
    BY <1>3 DEF BeginFrame
  <2> HIDE DEF r
  <2>3. NotSaving(r)
    BY <2>1, <2>2 DEF NotSaving, RenamesSnapshot
  <2> QED
    BY <1>0, <1>2, <2>1, <2>2, <2>3
<1>4. ASSUME NEW w \in Windows, NEW n \in Symbols \cup Files, Upsert(w, n)
      PROVE  TypeOK' /\ RenamesSnapshot'
  <2> DEFINE r == [win[w] EXCEPT !.model = @ \cup {n}]
  <2>1. r \in Window /\ r.pc = win[w].pc /\ r.torn = win[w].torn
    BY <1>0 DEF Window
  <2>2. /\ Update(w, r) /\ changes' = changes + 1 /\ win[w].pc \in {"idle", "frame"}
        /\ UNCHANGED <<file, tmp, clock, starts, failures>>
    BY <1>4 DEF Upsert
  <2> HIDE DEF r
  <2>3. NotSaving(r)
    BY <2>1, <2>2 DEF NotSaving, RenamesSnapshot
  <2> QED
    BY <1>0, <1>2, <2>1, <2>2, <2>3
<1>5. ASSUME NEW w \in Windows, NEW n \in Symbols \cup Files, Delete(w, n)
      PROVE  TypeOK' /\ RenamesSnapshot'
  <2> DEFINE o == [s \in Symbols |-> IF s = n /\ n \in win[w].seen THEN 0 ELSE win[w].owed[s]]
             r == [win[w] EXCEPT !.model = @ \ {n}, !.owed = o]
  <2>1. o \in [Symbols -> Nat]
    BY <1>0 DEF Window
  <2>2. Update(w, r) /\ changes' = changes + 1 /\ UNCHANGED <<file, tmp, clock, starts, failures>>
        /\ win[w].pc = "frame"
    BY <1>5 DEF Delete
  <2> HIDE DEF o
  <2>3. r \in Window /\ r.pc = "frame" /\ r.torn = win[w].torn
    BY <1>0, <2>1, <2>2 DEF Window
  <2> HIDE DEF r
  <2>4. NotSaving(r)
    BY <2>2, <2>3 DEF NotSaving, RenamesSnapshot
  <2> QED
    BY <1>0, <1>2, <2>2, <2>3, <2>4
<1>6. ASSUME NEW w \in Windows, NEW s \in Sizes, Resize(w, s) PROVE TypeOK' /\ RenamesSnapshot'
  <2>1. s \in Nat
    BY SettingsAssumption
  <2> DEFINE r == [win[w] EXCEPT !.size = s]
  <2>2. r \in Window /\ r.pc = win[w].pc /\ r.torn = win[w].torn
    BY <1>0, <2>1 DEF Window
  <2>3. /\ Update(w, r) /\ changes' = changes + 1 /\ win[w].pc = "frame"
        /\ UNCHANGED <<file, tmp, clock, starts, failures>>
    BY <1>6 DEF Resize
  <2> HIDE DEF r
  <2>4. NotSaving(r)
    BY <2>2, <2>3 DEF NotSaving, RenamesSnapshot
  <2> QED
    BY <1>0, <1>2, <2>2, <2>3, <2>4
<1>7. ASSUME NEW w \in Windows, persist_settings_if_dirty(w) PROVE TypeOK' /\ RenamesSnapshot'
  <2> DEFINE r == win[w]
             loaded == r.model \ Files
             seen == r.seen \cup loaded
             list == merge_previous_buffers(r.prev_buffers, loaded, seen, clock)
             o == [n \in Symbols |-> IF n \in loaded THEN clock + TTL ELSE r.owed[n]]
             q == [r EXCEPT !.seen = seen, !.prev_buffers = list, !.owed = o]
             live == [size |-> r.size, previous_buffers |-> list]
  <2>1. /\ Update(w, update(q, live)) /\ UNCHANGED <<file, tmp, clock, starts, changes, failures>>
        /\ r.pc = "frame"
    BY <1>7 DEF persist_settings_if_dirty
  <2>2. list \in [Symbols -> Nat]
    BY <1>0, MergeOK DEF Window
  <2>3. seen \in SUBSET Symbols
    BY <1>0 DEF Window
  <2>4. o \in [Symbols -> Nat]
    BY <1>0, SettingsAssumption DEF Window
  <2> HIDE DEF o, seen, list, loaded
  <2>5. q \in Window /\ q.torn = r.torn
    BY <1>0, <2>2, <2>3, <2>4, ZenonT(30) DEF Window
  <2>6. live \in Snapshot
    BY <1>0, <2>2 DEF Window, Snapshot
  <2>7. update(q, live) \in Window
    BY <1>0, <2>5, <2>6, UpdateSaverOK
  <2>8. NotSaving(update(q, live))
    <3>1. ~q.torn
      BY <2>1, <2>5 DEF RenamesSnapshot
    <3>2. update(q, live).pc \in {"save", "idle"} /\ update(q, live).torn = q.torn
      BY <2>5 DEF update, Window
    <3> QED
      BY <3>1, <3>2 DEF NotSaving
  <2> QED
    BY <1>0, <1>2, <2>1, <2>7, <2>8
<1>8. ASSUME NEW w \in Windows, Close(w) PROVE TypeOK' /\ RenamesSnapshot'
  <2> DEFINE r == [win[w] EXCEPT !.exiting = TRUE, !.dirty = FALSE,
                                 !.pc = IF win[w].dirty THEN "save" ELSE "exited"]
  <2>1. r \in Window /\ r.pc \in {"save", "exited"} /\ r.torn = win[w].torn
    BY <1>0, ZenonT(30) DEF Window, PCs
  <2>2. /\ Update(w, r) /\ UNCHANGED <<file, tmp, clock, starts, changes, failures>>
        /\ win[w].pc = "idle"
    BY <1>8 DEF Close
  <2> HIDE DEF r
  <2>3. NotSaving(r)
    BY <2>1, <2>2 DEF NotSaving, RenamesSnapshot
  <2> QED
    BY <1>0, <1>2, <2>1, <2>2, <2>3
<1>9. ASSUME NEW w \in Windows, Crash(w) PROVE TypeOK' /\ RenamesSnapshot'
  <2>1. Off \in Window /\ NotSaving(Off)
    BY OffOK DEF Off, NotSaving
  <2>2. Update(w, Off) /\ UNCHANGED <<file, tmp, clock, starts, changes, failures>>
    BY <1>9 DEF Crash
  <2> QED
    BY <1>0, <1>2, <2>1, <2>2
<1>10. ASSUME NEW w \in Windows, WritesTmp(w) PROVE TypeOK' /\ RenamesSnapshot'
  <2> DEFINE Rec(x, t) == [win[w] EXCEPT !.pc = x, !.torn = t]
  <2>1. ASSUME NEW x \in PCs, NEW t \in BOOLEAN
        PROVE  /\ Rec(x, t) \in Window /\ Rec(x, t).pc = x /\ Rec(x, t).torn = t
               /\ Rec(x, t).current = win[w].current
    BY <1>0, ZenonT(30) DEF Window
  <2>2. /\ tmp[w] = Partial \/ win[w].pc = "save"
        /\ win[w].torn = FALSE /\ win[w].current \in Snapshot
    BY <1>0, <1>10 DEF WritesTmp, OpenTmp, WriteTmp, CloseTmp, CloseFails, RenamesSnapshot, Window
  <2>3. \A x : [win[w] EXCEPT !.pc = x] = Rec(x, FALSE)
    BY <1>0, <2>2 DEF Window
  <2>4. \/ Update(w, Rec("write", FALSE)) /\ tmp' = [tmp EXCEPT ![w] = Partial]
        \/ Update(w, Rec("close", FALSE)) /\ tmp' = tmp /\ tmp[w] = Partial
        \/ Update(w, Rec("rename", FALSE)) /\ tmp' = [tmp EXCEPT ![w] = win[w].current]
        \/ Update(w, Rec("rename", TRUE)) /\ tmp' = tmp /\ tmp[w] = Partial
    <3>1. CASE OpenTmp(w)
      BY <2>3, <3>1 DEF OpenTmp, TmpName
    <3>2. CASE WriteTmp(w)
      BY <2>2, <2>3, <3>2 DEF WriteTmp
    <3>3. CASE CloseTmp(w)
      BY <2>3, <3>3 DEF CloseTmp, TmpName
    <3>4. CASE CloseFails(w)
      BY <2>2, <3>4 DEF CloseFails
    <3> QED
      BY <1>10, <3>1, <3>2, <3>3, <3>4 DEF WritesTmp
  <2>5. tmp' \in [Windows -> Snapshot \cup {Missing, Partial}]
    BY <1>0, <2>2, <2>4
  <2>6. UNCHANGED <<file, clock, starts, changes>> /\ failures' \in Nat
    BY <1>0, <1>10 DEF WritesTmp, OpenTmp, WriteTmp, CloseTmp, CloseFails
  <2>7. "write" \in PCs /\ "close" \in PCs /\ "rename" \in PCs
    BY DEF PCs
  <2> HIDE DEF Rec
  <2>8. PICK r \in Window :
            /\ Update(w, r) /\ r.current = win[w].current
            /\ r.pc \in {"write", "close"} => tmp'[w] = Partial
            /\ r.pc = "rename" => tmp'[w] = IF r.torn THEN Partial ELSE r.current
            /\ r.torn => r.pc = "rename"
            /\ \A v \in Windows \ {w} : tmp'[v] = tmp[v]
    <3>1. CASE Update(w, Rec("write", FALSE)) /\ tmp' = [tmp EXCEPT ![w] = Partial]
      BY <1>0, <2>1, <2>7, <3>1
    <3>2. CASE Update(w, Rec("close", FALSE)) /\ tmp' = tmp /\ tmp[w] = Partial
      BY <1>0, <2>1, <2>7, <3>2
    <3>3. CASE Update(w, Rec("rename", FALSE)) /\ tmp' = [tmp EXCEPT ![w] = win[w].current]
      BY <1>0, <2>1, <2>7, <3>3
    <3>4. CASE Update(w, Rec("rename", TRUE)) /\ tmp' = tmp /\ tmp[w] = Partial
      BY <1>0, <2>1, <2>7, <3>4
    <3> QED
      BY <2>4, <3>1, <3>2, <3>3, <3>4
  <2>9. TypeOK'
    BY <1>0, <2>5, <2>6, <2>8, UpdateOK
  <2>10. RenamesSnapshot'
    BY <1>0, <2>8 DEF RenamesSnapshot, Update
  <2> QED
    BY <2>9, <2>10
<1>11. ASSUME NEW w \in Windows, WriteFails(w) \/ RenameFails(w) \/ Rename(w)
       PROVE  TypeOK' /\ RenamesSnapshot'
  <2> DEFINE Rec(f) == [win[w] EXCEPT !.pc = IF win[w].exiting THEN "exited" ELSE "idle",
                                      !.failed = f, !.torn = FALSE]
  <2>1. \A f \in BOOLEAN : Rec(f) \in Window /\ NotSaving(Rec(f))
    BY <1>0, ZenonT(30) DEF Window, PCs, NotSaving
  <2>2. \E f \in BOOLEAN : Update(w, Rec(f))
    <3>1. win[w].torn \in BOOLEAN
      BY <1>0 DEF Window
    <3> QED
      BY <1>11, <3>1 DEF WriteFails, RenameFails, Rename, AfterSave
  <2>3. /\ tmp' = [tmp EXCEPT ![w] = Missing] /\ UNCHANGED <<clock, starts, changes>>
        /\ failures' \in {failures, failures + 1} /\ failures' \in Nat
    <3>1. CASE WriteFails(w)
      BY <1>0, <3>1 DEF WriteFails, TmpName
    <3>2. CASE RenameFails(w)
      BY <1>0, <3>2 DEF RenameFails, TmpName
    <3>3. CASE Rename(w)
      BY <1>0, <3>3 DEF Rename, TmpName
    <3> QED
      BY <1>11, <3>1, <3>2, <3>3
  <2>4. file' \in Snapshot \cup {Missing, Partial}
    <3>1. CASE Rename(w)
      <4>1. file' = tmp[w]
        BY <3>1 DEF Rename, TmpName
      <4> QED
        BY <1>0, <4>1
    <3>2. CASE WriteFails(w) \/ RenameFails(w)
      BY <1>0, <3>2 DEF WriteFails, RenameFails
    <3> QED
      BY <1>11, <3>1, <3>2
  <2>5. tmp' \in [Windows -> Snapshot \cup {Missing, Partial}]
    BY <1>0, <2>3
  <2> HIDE DEF Rec
  <2>6. PICK f \in BOOLEAN : Update(w, Rec(f))
    BY <2>2
  <2>7. TypeOK'
    BY <1>0, <2>1, <2>3, <2>4, <2>5, <2>6, UpdateOK
  <2>8. RenamesSnapshot'
    BY <1>0, <2>1, <2>3, <2>6 DEF RenamesSnapshot, Update, NotSaving
  <2> QED
    BY <2>7, <2>8
<1>12. CASE Tick
  BY <1>0, <1>12 DEF Tick, TypeOK, RenamesSnapshot
<1>13. CASE UNCHANGED vars
  BY <1>0, <1>13 DEF vars, TypeOK, RenamesSnapshot
<1> QED
  BY <1>1, <1>3, <1>4, <1>5, <1>6, <1>7, <1>8, <1>9, <1>10, <1>11, <1>12, <1>13
     DEF Next, WritesTmp

\* The initial state is well typed.
LEMMA TypeInit == Init => TypeOK /\ RenamesSnapshot
<1> SUFFICES ASSUME Init PROVE TypeOK /\ RenamesSnapshot
  OBVIOUS
<1>1. win = [w \in Windows |-> Off] /\ win \in [Windows -> Window]
  BY OffOK DEF Init
<1>2. Off.pc = "off" /\ ~Off.torn
  BY DEF Off
<1> QED
  BY <1>1, <1>2 DEF Init, TypeOK, RenamesSnapshot

\* What a window renames over the settings file is its own snapshot, or the
\* temporary file it has torn itself at the close, never what another window
\* writes -- however the saves of several windows, failed calls and killed
\* processes interleave (SettingsStore::save()).
THEOREM RenamesOwn == Spec => [](TypeOK /\ RenamesSnapshot)
<1>1. Init => TypeOK /\ RenamesSnapshot
  BY TypeInit
<1>2. (TypeOK /\ RenamesSnapshot) /\ [Next]_vars => (TypeOK /\ RenamesSnapshot)'
  BY TypeStep
<1> QED
  BY <1>1, <1>2, PTL DEF Spec
-----------------------------------------------------------------------------
\* The refinement mapping's view of the snapshots being saved, and of those torn.
Saving == [w \in Windows |-> IF InSave(w) THEN win[w].current ELSE Nothing]
Lost == {w \in Windows : win[w].torn}

\* A snapshot is none of the marks.
LEMMA SnapshotIsSome == \A c \in Snapshot : c # Nothing /\ c # Missing /\ c # Partial
<1>1. \A c \in Snapshot : "size" \in DOMAIN c
  BY DEF Snapshot
<1>2. "size" \notin DOMAIN Nothing /\ "size" \notin DOMAIN Missing /\ "size" \notin DOMAIN Partial
  BY DEF Nothing, Missing, Partial
<1> QED
  BY <1>1, <1>2

\* The initial file is the abstract one's.
LEMMA SharedInit == Init => Shared!Init
<1> SUFFICES ASSUME Init PROVE Shared!Init
  OBVIOUS
<1>1. \A w \in Windows : win[w].pc = "off" /\ ~win[w].torn
  BY DEF Init, Off
<1> QED
  BY <1>1 DEF Init, Shared!Init, InSave, Nothing, Missing, Shared!Nothing, Shared!Missing

\* A step in which only window w moves, as far as the file can tell.
OnlyMoves(w) ==
    \A v \in Windows \ {w} :
        win'[v].pc = win[v].pc /\ win'[v].current = win[v].current /\ win'[v].torn = win[v].torn

\* What w's rename makes of the file.
Renamed(w) == IF win[w].torn THEN Partial ELSE win[w].current

\* What such a step may be: no more than one save is begun, given up or done.
LEMMA OneMove ==
    ASSUME TypeOK, TypeOK', RenamesSnapshot, RenamesSnapshot', NEW w \in Windows, OnlyMoves(w),
           \/ file' = file
           \/ InSave(w) /\ ~InSave(w)' /\ file' = Renamed(w),
           InSave(w) /\ InSave(w)' =>
               win'[w].current = win[w].current /\ (win[w].torn => win'[w].torn),
           ~InSave(w) => ~win'[w].torn
    PROVE  [Shared!Next]_(Shared!fileVars)
<1>1. /\ \A v \in Windows \ {w} : Saving'[v] = Saving[v]
      /\ \A v \in Windows \ {w} : v \in Lost' <=> v \in Lost
  BY DEF OnlyMoves, Saving, InSave, Lost
<1>2. /\ Saving[w] = IF InSave(w) THEN win[w].current ELSE Nothing
      /\ Saving'[w] = IF InSave(w)' THEN win'[w].current ELSE Nothing
      /\ w \in Lost <=> win[w].torn
      /\ w \in Lost' <=> win'[w].torn
  BY DEF Saving, Lost
<1>3. win[w].current # Nothing /\ win'[w].current # Nothing
  BY SnapshotIsSome DEF TypeOK, Window
<1>4. Shared!Nothing = Nothing /\ Shared!Torn = Partial
  BY DEF Nothing, Shared!Nothing, Shared!Torn, Partial
<1>5. /\ Saving = [v \in Windows |-> Saving[v]] /\ Saving' = [v \in Windows |-> Saving'[v]]
      /\ Lost \subseteq Windows /\ Lost' \subseteq Windows
  BY DEF Saving, Lost
<1>6. /\ ~InSave(w) => w \notin Lost /\ w \notin Lost'
      /\ ~InSave(w)' => w \notin Lost'
  BY <1>2 DEF RenamesSnapshot, InSave
<1>7. ASSUME ~InSave(w), ~InSave(w)' PROVE UNCHANGED <<file, Saving, Lost>>
  <2>1. Lost' = Lost
    BY <1>1, <1>5, <1>6, <1>7
  <2> QED
    BY <1>1, <1>2, <1>5, <1>7, <2>1
<1>8. ASSUME InSave(w), InSave(w)' PROVE UNCHANGED <<file, Saving, Lost>> \/ Shared!Lose(w)
  <2>1. UNCHANGED <<file, Saving>> /\ Saving[w] # Nothing
    BY <1>1, <1>2, <1>3, <1>5, <1>8
  <2>2. Lost' = Lost \/ Lost' = Lost \cup {w}
    BY <1>1, <1>2, <1>5, <1>8
  <2> QED
    BY <1>4, <2>1, <2>2 DEF Shared!Lose, Saving, Lost
<1>9. ASSUME ~InSave(w), InSave(w)' PROVE Shared!Save(w)
  <2>1. Lost' = Lost
    BY <1>1, <1>5, <1>6, <1>9
  <2> QED
    BY <1>1, <1>2, <1>3, <1>4, <1>9, <2>1 DEF Shared!Save, Saving, Lost
<1>10. ASSUME InSave(w), ~InSave(w)' PROVE Shared!GiveUp(w) \/ Shared!Replace(w)
  <2>1. Saving' = [Saving EXCEPT ![w] = Nothing] /\ Saving[w] # Nothing /\ Saving[w] = win[w].current
    BY <1>1, <1>2, <1>3, <1>5, <1>10
  <2>2. Lost' = Lost \ {w}
    BY <1>1, <1>5, <1>6, <1>10
  <2>3. Renamed(w) = IF w \in Lost THEN Shared!Torn ELSE Saving[w]
    BY <1>2, <1>4, <1>10 DEF Renamed
  <2>4. CASE file' = file
    BY <1>4, <2>1, <2>2, <2>4 DEF Shared!GiveUp, Saving, Lost
  <2>5. CASE file' = Renamed(w)
    BY <1>4, <2>1, <2>2, <2>3, <2>5 DEF Shared!Replace, Saving, Lost
  <2> QED
    BY <2>4, <2>5
<1> QED
  BY <1>7, <1>8, <1>9, <1>10 DEF Shared!Next, Shared!fileVars, Saving, Lost

\* Every step of the windows is a step of the abstract file, or none.
LEMMA SharedStep ==
    /\ TypeOK /\ RenamesSnapshot
    /\ TypeOK' /\ RenamesSnapshot'
    /\ [Next]_vars
    => [Shared!Next]_(Shared!fileVars)
<1> SUFFICES ASSUME TypeOK, RenamesSnapshot, TypeOK', RenamesSnapshot'
             PROVE  [Next]_vars => [Shared!Next]_(Shared!fileVars)
  OBVIOUS
<1>0. win \in [Windows -> Window]
  BY DEF TypeOK
<1>1. ASSUME NEW w \in Windows, Start(w) PROVE [Shared!Next]_(Shared!fileVars)
  <2>1. ASSUME NEW v \in Windows \ {w}
        PROVE  /\ win'[v].pc = win[v].pc /\ win'[v].current = win[v].current
               /\ win'[v].torn = win[v].torn
    <3>1. win'[v] = [win[v] EXCEPT !.alone = FALSE]
      BY <1>1 DEF Start
    <3> QED
      BY <1>0, <3>1 DEF Window
  <2>2. win'[w].pc = "idle"
    BY <1>1 DEF Start, Off
  <2>3. ~InSave(w) /\ ~InSave(w)' /\ ~win'[w].torn
    BY <1>1, <2>2 DEF Start, InSave, Running, RenamesSnapshot
  <2>4. OnlyMoves(w) /\ file' = file
    BY <1>1, <2>1 DEF Start, OnlyMoves
  <2> QED
    BY <2>3, <2>4, OneMove
<1>2. ASSUME NEW w \in Windows, NEW r, Update(w, r),
             \/ file' = file
             \/ win[w].pc = "rename" /\ r.pc \in {"idle", "exited"} /\ file' = Renamed(w),
             InSave(w) /\ r.pc \in {"save", "write", "close", "rename"} =>
                 r.current = win[w].current /\ (win[w].torn => r.torn),
             r.pc = "rename" => InSave(w)
      PROVE  [Shared!Next]_(Shared!fileVars)
  <2>1. OnlyMoves(w) /\ win'[w] = r
    BY <1>0, <1>2 DEF Update, OnlyMoves
  <2>2. ~InSave(w) => ~win'[w].torn
    BY <1>2, <2>1 DEF RenamesSnapshot
  <2> QED
    BY <1>2, <2>1, <2>2, OneMove DEF InSave
<1>3. ASSUME NEW w \in Windows, BeginFrame(w) \/ Close(w) \/ Crash(w)
      PROVE  [Shared!Next]_(Shared!fileVars)
  <2>1. file' = file
    BY <1>3 DEF BeginFrame, Close, Crash
  <2>2. PICK r : /\ Update(w, r) /\ r.pc # "rename"
                 /\ r.pc \notin {"save", "write", "close", "rename"} \/ win[w].pc = "idle"
    <3>1. CASE BeginFrame(w)
      <4>1. [win[w] EXCEPT !.pc = "frame"].pc = "frame"
        BY <1>0 DEF Window
      <4> QED
        BY <3>1, <4>1 DEF BeginFrame
    <3>2. CASE Close(w)
      <4> DEFINE r == [win[w] EXCEPT !.exiting = TRUE, !.dirty = FALSE,
                                     !.pc = IF win[w].dirty THEN "save" ELSE "exited"]
      <4>1. r.pc \in {"save", "exited"}
        BY <1>0 DEF Window
      <4>2. Update(w, r) /\ win[w].pc = "idle"
        BY <3>2 DEF Close
      <4> HIDE DEF r
      <4> QED
        BY <4>1, <4>2
    <3>3. CASE Crash(w)
      BY <3>3 DEF Crash, Off
    <3> QED
      BY <1>3, <3>1, <3>2, <3>3
  <2> QED
    BY <1>2, <2>1, <2>2 DEF InSave
<1>4. ASSUME NEW w \in Windows, WritesTmp(w) PROVE [Shared!Next]_(Shared!fileVars)
  <2>1. file' = file /\ InSave(w) /\ ~win[w].torn
    BY <1>4 DEF WritesTmp, OpenTmp, WriteTmp, CloseTmp, CloseFails, InSave, RenamesSnapshot
  <2>2. PICK r : Update(w, r) /\ r.current = win[w].current
    <3>1. CASE CloseFails(w)
      <4>1. [win[w] EXCEPT !.pc = "rename", !.torn = TRUE].current = win[w].current
        BY <1>0 DEF Window
      <4> QED
        BY <3>1, <4>1 DEF CloseFails
    <3>2. CASE ~CloseFails(w)
      <4>1. PICK x \in PCs : Update(w, [win[w] EXCEPT !.pc = x])
        BY <1>4, <3>2 DEF WritesTmp, OpenTmp, WriteTmp, CloseTmp, PCs
      <4>2. [win[w] EXCEPT !.pc = x].current = win[w].current
        BY <1>0 DEF Window
      <4> QED
        BY <4>1, <4>2
    <3> QED
      BY <3>1, <3>2
  <2> QED
    BY <1>2, <2>1, <2>2
<1>5. ASSUME NEW w \in Windows, NEW r, Update(w, r), file' = file, win[w].pc \in {"idle", "frame"},
             r.pc # "rename"
      PROVE  [Shared!Next]_(Shared!fileVars)
  BY <1>2, <1>5 DEF InSave
<1>6. ASSUME NEW w \in Windows, NEW n \in Symbols \cup Files, Upsert(w, n) \/ Delete(w, n)
      PROVE  [Shared!Next]_(Shared!fileVars)
  <2>1. CASE Upsert(w, n)
    <3>1. [win[w] EXCEPT !.model = @ \cup {n}].pc = win[w].pc
      BY <1>0 DEF Window
    <3> QED
      BY <1>5, <2>1, <3>1 DEF Upsert
  <2>2. CASE Delete(w, n)
    <3> DEFINE o == [s \in Symbols |-> IF s = n /\ n \in win[w].seen THEN 0 ELSE win[w].owed[s]]
               r == [win[w] EXCEPT !.model = @ \ {n}, !.owed = o]
    <3>1. r.pc = win[w].pc
      BY <1>0 DEF Window
    <3>2. Update(w, r) /\ file' = file /\ win[w].pc = "frame"
      BY <2>2 DEF Delete
    <3> HIDE DEF r
    <3> QED
      BY <1>5, <3>1, <3>2
  <2> QED
    BY <1>6, <2>1, <2>2
<1>7. ASSUME NEW w \in Windows, NEW s \in Sizes, Resize(w, s)
      PROVE  [Shared!Next]_(Shared!fileVars)
  <2>1. [win[w] EXCEPT !.size = s].pc = win[w].pc
    BY <1>0 DEF Window
  <2> QED
    BY <1>5, <1>7, <2>1 DEF Resize
<1>8. ASSUME NEW w \in Windows, persist_settings_if_dirty(w)
      PROVE  [Shared!Next]_(Shared!fileVars)
  <2>1. PICK q, live : /\ Update(w, update(q, live)) /\ "pc" \in DOMAIN q
                       /\ win[w].pc = "frame" /\ file' = file
    <3>1. \A a, b, c : "pc" \in DOMAIN [win[w] EXCEPT !.seen = a, !.prev_buffers = b, !.owed = c]
      BY <1>0 DEF Window
    <3> QED
      BY <1>8, <3>1 DEF persist_settings_if_dirty
  <2>2. update(q, live).pc # "rename"
    BY <2>1 DEF update
  <2> QED
    BY <1>5, <2>1, <2>2
<1>9. ASSUME NEW w \in Windows, WriteFails(w) \/ RenameFails(w) \/ Rename(w)
      PROVE  [Shared!Next]_(Shared!fileVars)
  <2>1. PICK f : Update(w, [win[w] EXCEPT !.pc = IF win[w].exiting THEN "exited" ELSE "idle",
                                          !.failed = f, !.torn = FALSE])
    BY <1>9 DEF WriteFails, RenameFails, Rename, AfterSave
  <2> DEFINE r == [win[w] EXCEPT !.pc = IF win[w].exiting THEN "exited" ELSE "idle",
                                 !.failed = f, !.torn = FALSE]
  <2>2. r.pc \in {"idle", "exited"}
    BY <1>0 DEF Window
  <2>3. file' = file \/ (win[w].pc = "rename" /\ file' = Renamed(w))
    BY <1>9 DEF WriteFails, RenameFails, Rename, RenamesSnapshot, TmpName, Renamed
  <2> HIDE DEF r
  <2> QED
    BY <1>2, <2>1, <2>2, <2>3 DEF r
<1>10. CASE Tick \/ UNCHANGED vars
  BY <1>10 DEF Tick, vars, Shared!fileVars, InSave
<1> QED
  BY <1>1, <1>3, <1>4, <1>6, <1>7, <1>8, <1>9, <1>10 DEF Next, WritesTmp

\* Settings implements SharedFile.
THEOREM FileAtomic == Spec => FileIsAtomic
<1>1. Init => Shared!Init
  BY SharedInit
<1>2. (TypeOK /\ RenamesSnapshot) /\ (TypeOK /\ RenamesSnapshot)' /\ [Next]_vars
        => [Shared!Next]_(Shared!fileVars)
  BY SharedStep
<1> QED
  BY <1>1, <1>2, RenamesOwn, PTL DEF Spec, FileIsAtomic, Shared!Spec
-----------------------------------------------------------------------------
\* A size that was loaded once is not changed by loading it again.
LEMMA SectionIdempotent ==
    ASSUME NEW s \in Nat
    PROVE  /\ apply_window_section(s) \in Nat
           /\ apply_window_section(apply_window_section(s)) = apply_window_section(s)
<1>1. DEFAULT_SIZE \in Nat /\ DEFAULT_SIZE \in 100..16384
  BY DEF DEFAULT_SIZE
<1>2. apply_window_section(DEFAULT_SIZE) = DEFAULT_SIZE
  BY <1>1 DEF apply_window_section
<1>3. CASE s \in 100..16384
  <2>1. apply_window_section(s) = s
    BY <1>3 DEF apply_window_section
  <2> QED
    BY <2>1
<1>4. CASE s \notin 100..16384
  <2>1. apply_window_section(s) = DEFAULT_SIZE
    BY <1>4 DEF apply_window_section
  <2> QED
    BY <1>1, <1>2, <2>1
<1> QED
  BY <1>3, <1>4

\* What the loader returns has a size it would not replace.
LEMMA LoadedSize ==
    ASSUME TypeOK
    PROVE  apply_window_section(load.size) = load.size
<1>1. CASE file \in {Missing, Partial}
  BY <1>1 DEF load, Defaults, apply_window_section, DEFAULT_SIZE
<1>2. CASE file \in Snapshot
  <2>1. load = [file EXCEPT !.size = apply_window_section(@)] /\ file.size \in Nat
    BY <1>2, SnapshotIsSome DEF load, Snapshot
  <2>2. load.size = apply_window_section(file.size)
    BY <1>2, <2>1 DEF Snapshot
  <2> QED
    BY <2>1, <2>2, SectionIdempotent
<1> QED
  BY <1>1, <1>2 DEF TypeOK

\* Loading a snapshot that was saved.
LEMMA LoadsSaved ==
    ASSUME file \in Snapshot
    PROVE  /\ load.size = apply_window_section(file.size)
           /\ load.previous_buffers = file.previous_buffers
<1>1. load = [file EXCEPT !.size = apply_window_section(@)]
  BY SnapshotIsSome DEF load
<1> QED
  BY <1>1 DEF Snapshot

\* A step of a running window keeps the promises of all if it keeps its own:
\* another window that is alone would not have let it run.
LEMMA OwnStep ==
    ASSUME TypeOK, Promise, NEW w \in Windows, NEW r \in Window, Update(w, r),
           Running(w), clock' = clock, r.alone => win[w].alone,
           Kept(r, clock, load')
    PROVE  Promise'
<1>0. win \in [Windows -> Window]
  BY DEF TypeOK
<1>1. win'[w] = r /\ \A v \in Windows \ {w} : win'[v] = win[v]
  BY <1>0 DEF Update
<1>2. \A v \in Windows \ {w} : ~win[v].alone
  BY DEF Promise, AloneExcludes
<1>3. AloneExcludes'
  BY <1>1, <1>2 DEF Promise, AloneExcludes, Running
<1>4. ASSUME NEW v \in Windows PROVE Kept(win'[v], clock', load')
  <2>1. CASE v = w
    BY <1>1, <2>1
  <2>2. CASE v # w
    <3>1. Kept(win[v], clock, load) /\ ~win[v].alone /\ win'[v] = win[v]
      BY <1>1, <1>2, <2>2 DEF Promise
    <3> QED
      BY <3>1 DEF Kept, CleanIsSaved
  <2> QED
    BY <2>1, <2>2
<1> QED
  BY <1>3, <1>4 DEF Promise

\* The frame's end: what persist_settings_if_dirty() merges is worth what the
\* window owes (the entries of loaded buffers are renewed in both, those of
\* deleted ones gone in both, those never loaded kept until they expire), and
\* the saver takes it over.
LEMMA PersistKeeps ==
    ASSUME TypeOK, NEW w \in Windows, Kept(win[w], clock, load), persist_settings_if_dirty(w)
    PROVE  \E r \in Window : /\ Update(w, r) /\ r.alone = win[w].alone
                             /\ Kept(r, clock, load)
<1>0. win[w] \in Window /\ clock \in Nat
  BY DEF TypeOK
<1> DEFINE s == win[w]
           loaded == s.model \ Files
           seen == s.seen \cup loaded
           list == merge_previous_buffers(s.prev_buffers, loaded, seen, clock)
           o == [n \in Symbols |-> IF n \in loaded THEN clock + TTL ELSE s.owed[n]]
           q == [s EXCEPT !.seen = seen, !.prev_buffers = list, !.owed = o]
           live == [size |-> s.size, previous_buffers |-> list]
           r == update(q, live)
<1>1. Update(w, r) /\ s.pc = "frame"
  BY DEF persist_settings_if_dirty
<1>2. list \in [Symbols -> Nat] /\ seen \in SUBSET Symbols /\ o \in [Symbols -> Nat]
  <2>1. list \in [Symbols -> Nat]
    BY <1>0, MergeOK DEF Window
  <2>2. seen \in SUBSET Symbols
    BY <1>0 DEF Window
  <2>3. o \in [Symbols -> Nat]
    BY <1>0, SettingsAssumption DEF Window
  <2> QED
    BY <2>1, <2>2, <2>3
<1>3. \A n \in Symbols : SameLease(list[n], o[n], clock) /\ (n \in seen \ s.model => o[n] = 0)
  <2>1. TAKE n \in Symbols
  <2>2. MergeInputs(s, clock) /\ s.prev_buffers[n] \in Nat /\ s.owed[n] \in Nat /\ n \notin Files
    BY <1>0, SettingsAssumption DEF Kept, Window
  <2>3. CASE n \in loaded
    BY <2>2, <2>3 DEF SameLease, merge_previous_buffers
  <2>4. CASE n \in s.seen /\ n \notin loaded
    <3>1. o[n] = 0
      BY <2>2, <2>4 DEF MergeInputs
    <3>2. list[n] = 0
      BY <2>4 DEF merge_previous_buffers
    <3> HIDE DEF o, list
    <3> QED
      BY <3>1, <3>2 DEF SameLease
  <2>5. CASE n \notin seen
    <3>1. SameLease(s.prev_buffers[n], o[n], clock) /\ o[n] = s.owed[n]
      BY <2>2, <2>5 DEF MergeInputs
    <3>2. list[n] = IF s.prev_buffers[n] <= clock THEN 0 ELSE s.prev_buffers[n]
      BY <2>5 DEF merge_previous_buffers
    <3>3. n \notin seen \ s.model
      BY <2>5
    <3> HIDE DEF o, list, seen
    <3> QED
      BY <1>0, <2>2, <3>1, <3>2, <3>3 DEF SameLease
  <2> QED
    BY <2>3, <2>4, <2>5
<1> HIDE DEF o, seen, list, loaded
<1>4. q \in Window
  BY <1>0, <1>2 DEF Window
<1>5. live \in Snapshot
  BY <1>0, <1>2 DEF Window, Snapshot
<1>6. r \in Window
  BY <1>0, <1>4, <1>5, UpdateSaverOK
<1>7. /\ q.seen = seen /\ q.model = s.model /\ q.prev_buffers = list /\ q.owed = o
      /\ q.alone = s.alone /\ q.failed = s.failed /\ q.dirty = s.dirty /\ q.current = s.current
  BY <1>0 DEF Window
<1> HIDE DEF q
<1> DEFINE dirty == q.dirty \/ live # q.current
           due == dirty /\ clock - q.last_save >= DebounceS
<1>8. /\ r.seen = seen /\ r.model = s.model /\ r.prev_buffers = list /\ r.owed = o
      /\ r.alone = s.alone /\ r.failed = s.failed /\ r.current = live
      /\ r.dirty = (dirty /\ ~due) /\ r.pc = IF due THEN "save" ELSE "idle"
  BY <1>4, <1>7 DEF Window, update
<1>9. live.previous_buffers = list
  OBVIOUS
<1> HIDE DEF r, live, s, due
<1>10. MergeInputs(r, clock) /\ CopyIsOwed(r, clock)
  BY <1>3, <1>8, <1>9 DEF MergeInputs, CopyIsOwed
<1>11. CleanIsSaved(r, load)
  <2>1. ASSUME r.alone, ~r.failed, ~r.dirty, r.pc \in {"idle", "frame", "exited"}
        PROVE  s.alone /\ ~s.failed /\ ~s.dirty /\ r.current = s.current
    BY <1>7, <1>8, <2>1
  <2>2. CleanIsSaved(s, load)
    BY DEF Kept, s
  <2> QED
    BY <1>1, <2>1, <2>2 DEF CleanIsSaved
<1>12. FlagTaken(r)
  BY <1>8 DEF FlagTaken
<1> QED
  BY <1>1, <1>6, <1>8, <1>10, <1>11, <1>12 DEF Kept, s

\* Every step keeps the promise.
LEMMA PromiseStep ==
    TypeOK /\ RenamesSnapshot /\ Promise /\ [Next]_vars => Promise'
<1> SUFFICES ASSUME TypeOK, RenamesSnapshot, Promise PROVE [Next]_vars => Promise'
  OBVIOUS
<1>0. win \in [Windows -> Window] /\ clock \in Nat
  BY DEF TypeOK
<1>1. ASSUME NEW w \in Windows, Start(w) PROVE Promise'
  <2>1. /\ file' = file /\ clock' = clock /\ load' = load
        /\ \A v \in Windows \ {w} : win'[v] = [win[v] EXCEPT !.alone = FALSE]
        /\ win'[w] = [Off EXCEPT !.pc = "idle", !.size = load.size, !.current = load,
                                 !.prev_buffers = load.previous_buffers,
                                 !.last_save = -DebounceS,
                                 !.owed = load.previous_buffers,
                                 !.alone = \A v2 \in Windows \ {w} : ~Running(v2)]
    BY <1>1 DEF Start, load
  <2>2. ASSUME NEW v \in Windows \ {w} PROVE Kept(win'[v], clock', load')
    <3> DEFINE r == [win[v] EXCEPT !.alone = FALSE]
    <3>1. /\ r.alone = FALSE /\ r.pc = win[v].pc /\ r.seen = win[v].seen /\ r.model = win[v].model
          /\ r.owed = win[v].owed /\ r.prev_buffers = win[v].prev_buffers
          /\ r.current = win[v].current /\ r.dirty = win[v].dirty
      BY <1>0 DEF Window
    <3>2. Kept(win[v], clock, load)
      BY DEF Promise
    <3>3. win'[v] = r
      BY <2>1
    <3> HIDE DEF r
    <3> QED
      BY <2>1, <3>1, <3>2, <3>3 DEF Kept, MergeInputs, CopyIsOwed, CleanIsSaved, FlagTaken
  <2>3. /\ win'[w].pc = "idle" /\ win'[w].current = load /\ win'[w].seen = {}
        /\ win'[w].prev_buffers = load.previous_buffers /\ win'[w].owed = load.previous_buffers
        /\ win'[w].alone = \A v2 \in Windows \ {w} : ~Running(v2)
    BY <2>1, OffOK DEF Window, Off
  <2>4. Kept(win'[w], clock', load')
    BY <2>1, <2>3, LoadedSize DEF Kept, MergeInputs, CopyIsOwed, CleanIsSaved, FlagTaken, SameLease
  <2>5. ASSUME NEW v \in Windows \ {w} PROVE ~win'[v].alone /\ win'[v].pc = win[v].pc
    <3>1. win'[v] = [win[v] EXCEPT !.alone = FALSE]
      BY <2>1
    <3> QED
      BY <1>0, <3>1 DEF Window
  <2>6. AloneExcludes'
    BY <2>3, <2>5 DEF AloneExcludes, Running
  <2> QED
    BY <2>2, <2>4, <2>6 DEF Promise
<1>2. ASSUME NEW w \in Windows PROVE Kept(win[w], clock, load)
  BY DEF Promise
<1>3. ASSUME NEW w \in Windows, BeginFrame(w) PROVE Promise'
  <2> DEFINE r == [win[w] EXCEPT !.pc = "frame"]
  <2>1. /\ r \in Window /\ r.pc = "frame" /\ r.alone = win[w].alone /\ r.seen = win[w].seen
        /\ r.model = win[w].model /\ r.owed = win[w].owed /\ r.prev_buffers = win[w].prev_buffers
        /\ r.current = win[w].current /\ r.dirty = win[w].dirty /\ r.failed = win[w].failed
    BY <1>0 DEF Window, PCs
  <2>2. Update(w, r) /\ clock' = clock /\ load' = load /\ win[w].pc = "idle" /\ Running(w)
    BY <1>3 DEF BeginFrame, load, Running
  <2> HIDE DEF r
  <2>3. Kept(r, clock, load)
    BY <1>2, <2>1, <2>2 DEF Kept, MergeInputs, CopyIsOwed, CleanIsSaved, FlagTaken
  <2> QED
    BY <2>1, <2>2, <2>3, OwnStep
<1>4. ASSUME NEW w \in Windows, NEW n \in Symbols \cup Files, Upsert(w, n) PROVE Promise'
  <2> DEFINE r == [win[w] EXCEPT !.model = @ \cup {n}]
  <2>1. /\ r \in Window /\ r.pc = win[w].pc /\ r.alone = win[w].alone /\ r.seen = win[w].seen
        /\ r.model = win[w].model \cup {n} /\ r.owed = win[w].owed
        /\ r.prev_buffers = win[w].prev_buffers
        /\ r.current = win[w].current /\ r.dirty = win[w].dirty /\ r.failed = win[w].failed
    BY <1>0 DEF Window
  <2>2. Update(w, r) /\ clock' = clock /\ load' = load /\ Running(w)
    BY <1>4 DEF Upsert, load, Running
  <2> HIDE DEF r
  <2>3. Kept(r, clock, load)
    BY <1>2, <2>1 DEF Kept, MergeInputs, CopyIsOwed, CleanIsSaved, FlagTaken
  <2> QED
    BY <2>1, <2>2, <2>3, OwnStep
<1>5. ASSUME NEW w \in Windows, NEW n \in Symbols \cup Files, Delete(w, n) PROVE Promise'
  <2> DEFINE o == [s \in Symbols |-> IF s = n /\ n \in win[w].seen THEN 0 ELSE win[w].owed[s]]
             r == [win[w] EXCEPT !.model = @ \ {n}, !.owed = o]
  <2>1. /\ o \in [Symbols -> Nat] /\ o[n] = (IF n \in win[w].seen THEN 0 ELSE o[n])
        /\ \A s \in Symbols : (s # n \/ n \notin win[w].seen) => o[s] = win[w].owed[s]
    BY <1>0 DEF Window
  <2>2. /\ Update(w, r) /\ clock' = clock /\ load' = load /\ Running(w) /\ win[w].pc = "frame"
    BY <1>5 DEF Delete, load, Running
  <2>3. \A s \in Symbols : s = n /\ n \in win[w].seen => o[s] = 0
    OBVIOUS
  <2> HIDE DEF o
  <2>4. /\ r \in Window /\ r.pc = "frame" /\ r.alone = win[w].alone /\ r.seen = win[w].seen
        /\ r.model = win[w].model \ {n} /\ r.owed = o /\ r.prev_buffers = win[w].prev_buffers
        /\ r.current = win[w].current /\ r.dirty = win[w].dirty /\ r.failed = win[w].failed
    BY <1>0, <2>1, <2>2, ZenonT(30) DEF Window
  <2> HIDE DEF r
  <2>5. MergeInputs(r, clock)
    <3>1. MergeInputs(win[w], clock)
      BY <1>2 DEF Kept
    <3> QED
      BY <2>1, <2>3, <2>4, <3>1 DEF MergeInputs
  <2>6. Kept(r, clock, load)
    BY <1>2, <2>2, <2>4, <2>5 DEF Kept, CopyIsOwed, CleanIsSaved, FlagTaken
  <2> QED
    BY <2>2, <2>4, <2>6, OwnStep
<1>6. ASSUME NEW w \in Windows, NEW s \in Sizes, Resize(w, s) PROVE Promise'
  <2>1. s \in Nat
    BY SettingsAssumption
  <2> DEFINE r == [win[w] EXCEPT !.size = s]
  <2>2. /\ r \in Window /\ r.pc = win[w].pc /\ r.alone = win[w].alone /\ r.seen = win[w].seen
        /\ r.model = win[w].model /\ r.owed = win[w].owed /\ r.prev_buffers = win[w].prev_buffers
        /\ r.current = win[w].current /\ r.dirty = win[w].dirty /\ r.failed = win[w].failed
    BY <1>0, <2>1 DEF Window
  <2>3. Update(w, r) /\ clock' = clock /\ load' = load /\ Running(w)
    BY <1>6 DEF Resize, load, Running
  <2> HIDE DEF r
  <2>4. Kept(r, clock, load)
    BY <1>2, <2>2 DEF Kept, MergeInputs, CopyIsOwed, CleanIsSaved, FlagTaken
  <2> QED
    BY <2>2, <2>3, <2>4, OwnStep
<1>7. ASSUME NEW w \in Windows, persist_settings_if_dirty(w) PROVE Promise'
  <2>1. PICK r \in Window : Update(w, r) /\ r.alone = win[w].alone /\ Kept(r, clock, load)
    BY <1>2, <1>7, PersistKeeps
  <2>2. clock' = clock /\ load' = load /\ Running(w)
    BY <1>7 DEF persist_settings_if_dirty, load, Running
  <2> QED
    BY <2>1, <2>2, OwnStep
<1>8. ASSUME NEW w \in Windows, Close(w) PROVE Promise'
  <2> DEFINE p == IF win[w].dirty THEN "save" ELSE "exited"
             r == [win[w] EXCEPT !.exiting = TRUE, !.dirty = FALSE, !.pc = p]
  <2>1. p \in PCs
    BY DEF PCs
  <2>2. Update(w, r) /\ clock' = clock /\ load' = load /\ Running(w) /\ win[w].pc = "idle"
    BY <1>8 DEF Close, load, Running
  <2>3. p \in {"save", "exited"} /\ (p = "exited" => ~win[w].dirty)
    OBVIOUS
  <2> HIDE DEF p
  <2>4. /\ r \in Window /\ r.pc = p /\ r.alone = win[w].alone /\ r.seen = win[w].seen
        /\ r.model = win[w].model /\ r.owed = win[w].owed /\ r.prev_buffers = win[w].prev_buffers
        /\ r.current = win[w].current /\ r.dirty = FALSE /\ r.failed = win[w].failed
    BY <1>0, <2>1 DEF Window
  <2> HIDE DEF r
  <2>5. Kept(r, clock, load)
    BY <1>2, <2>2, <2>3, <2>4 DEF Kept, MergeInputs, CopyIsOwed, CleanIsSaved, FlagTaken
  <2> QED
    BY <2>2, <2>4, <2>5, OwnStep
<1>9. ASSUME NEW w \in Windows, Crash(w) PROVE Promise'
  <2>1. /\ Off \in Window /\ Off.pc = "off" /\ Off.alone = FALSE /\ Off.seen = {}
        /\ Off.prev_buffers = Off.owed
    BY OffOK DEF Off
  <2>2. Update(w, Off) /\ clock' = clock /\ load' = load /\ Running(w)
    BY <1>9 DEF Crash, load
  <2>3. Kept(Off, clock, load)
    BY <2>1 DEF Kept, MergeInputs, CopyIsOwed, CleanIsSaved, FlagTaken, SameLease
  <2> QED
    BY <2>1, <2>2, <2>3, OwnStep
<1>10. ASSUME NEW w \in Windows, WritesTmp(w) PROVE Promise'
  <2> DEFINE Rec(x, t) == [win[w] EXCEPT !.pc = x, !.torn = t]
  <2>1. \E x \in {"write", "close", "rename"}, t \in BOOLEAN : Update(w, Rec(x, t))
    <3>1. \A x : [win[w] EXCEPT !.pc = x] = Rec(x, win[w].torn) /\ win[w].torn \in BOOLEAN
      BY <1>0 DEF Window
    <3>2. CASE CloseFails(w)
      BY <3>2 DEF CloseFails
    <3>3. CASE ~CloseFails(w)
      <4>1. PICK x \in {"write", "close", "rename"} : Update(w, [win[w] EXCEPT !.pc = x])
        BY <1>10, <3>3 DEF WritesTmp, OpenTmp, WriteTmp, CloseTmp
      <4> QED
        BY <3>1, <4>1
    <3> QED
      BY <3>2, <3>3
  <2>2. PICK x \in {"write", "close", "rename"}, t \in BOOLEAN : Update(w, Rec(x, t))
    BY <2>1
  <2> DEFINE r == Rec(x, t)
  <2>3. /\ r \in Window /\ r.pc = x /\ r.alone = win[w].alone /\ r.seen = win[w].seen
        /\ r.model = win[w].model /\ r.owed = win[w].owed /\ r.prev_buffers = win[w].prev_buffers
        /\ r.current = win[w].current /\ r.dirty = win[w].dirty /\ r.failed = win[w].failed
    BY <1>0 DEF Window, PCs
  <2>4. clock' = clock /\ load' = load /\ Running(w) /\ win[w].pc \in {"save", "write", "close"}
    BY <1>10 DEF WritesTmp, OpenTmp, WriteTmp, CloseTmp, CloseFails, load, Running
  <2> HIDE DEF r
  <2>5. Kept(r, clock, load)
    BY <1>2, <2>2, <2>3, <2>4 DEF Kept, MergeInputs, CopyIsOwed, CleanIsSaved, FlagTaken
  <2> QED
    BY <2>2, <2>3, <2>4, <2>5, OwnStep DEF r
<1>11. ASSUME NEW w \in Windows, WriteFails(w) \/ RenameFails(w) \/ Rename(w) PROVE Promise'
  <2>1. PICK g \in BOOLEAN :
            /\ Update(w, [win[w] EXCEPT !.pc = IF win[w].exiting THEN "exited" ELSE "idle",
                                        !.failed = g, !.torn = FALSE])
            /\ g \/ (Rename(w) /\ ~win[w].torn)
    <3>1. win[w].torn \in BOOLEAN
      BY <1>0 DEF Window
    <3> QED
      BY <1>11, <3>1 DEF WriteFails, RenameFails, Rename, AfterSave
  <2> DEFINE p == IF win[w].exiting THEN "exited" ELSE "idle"
             r == [win[w] EXCEPT !.pc = p, !.failed = g, !.torn = FALSE]
  <2>2. p \in PCs /\ p \in {"exited", "idle"}
    BY DEF PCs
  <2>3. Update(w, r)
    BY <2>1
  <2> HIDE DEF p
  <2>4. /\ r \in Window /\ r.pc = p /\ r.alone = win[w].alone /\ r.seen = win[w].seen
        /\ r.model = win[w].model /\ r.owed = win[w].owed /\ r.prev_buffers = win[w].prev_buffers
        /\ r.current = win[w].current /\ r.dirty = win[w].dirty /\ r.failed = g
    BY <1>0, <2>2 DEF Window
  <2>5. clock' = clock /\ Running(w) /\ win[w].pc \in {"save", "write", "rename"}
    BY <1>11 DEF WriteFails, RenameFails, Rename, Running
  <2> HIDE DEF r
  <2>6. CleanIsSaved(r, load')
    <3>1. CASE g
      BY <2>4, <3>1 DEF CleanIsSaved
    <3>2. CASE Rename(w) /\ ~win[w].torn
      <4>1. file' = win[w].current /\ win[w].current \in Snapshot
        BY <1>0, <3>2 DEF Rename, TmpName, RenamesSnapshot, Window
      <4>2. load'.size = apply_window_section(file'.size) /\ load'.previous_buffers = file'.previous_buffers
        <5>1. load' = [file' EXCEPT !.size = apply_window_section(@)]
          BY <4>1, SnapshotIsSome DEF load
        <5> QED
          BY <4>1, <5>1 DEF Snapshot
      <4> QED
        BY <2>4, <4>1, <4>2 DEF CleanIsSaved
    <3> QED
      BY <2>1, <3>1, <3>2
  <2>7. Kept(r, clock, load')
    BY <1>2, <2>2, <2>4, <2>5, <2>6 DEF Kept, MergeInputs, CopyIsOwed, FlagTaken
  <2> QED
    BY <2>3, <2>4, <2>5, <2>7, OwnStep
<1>12. CASE Tick
  <2>1. win' = win /\ clock' = clock + 1 /\ load' = load
    BY <1>12 DEF Tick, load
  <2>2. ASSUME NEW w \in Windows PROVE Kept(win[w], clock + 1, load)
    <3>1. \A n \in Symbols : /\ win[w].prev_buffers[n] \in Nat /\ win[w].owed[n] \in Nat
                             /\ win[w].current.previous_buffers[n] \in Nat
      <4>1. win[w].current \in Snapshot /\ win[w].prev_buffers \in [Symbols -> Nat]
            /\ win[w].owed \in [Symbols -> Nat]
        BY <1>0 DEF Window
      <4> QED
        BY <4>1 DEF Snapshot
    <3>2. \A a, b \in Nat : SameLease(a, b, clock) => SameLease(a, b, clock + 1)
      BY <1>0 DEF SameLease
    <3> QED
      BY <1>2, <3>1, <3>2 DEF Kept, MergeInputs, CopyIsOwed
  <2> QED
    BY <2>1, <2>2 DEF Promise, AloneExcludes, Running
<1>13. CASE UNCHANGED vars
  <2>1. win' = win /\ clock' = clock /\ load' = load
    BY <1>13 DEF vars, load
  <2> QED
    BY <2>1 DEF Promise, AloneExcludes, Running
<1> QED
  BY <1>1, <1>3, <1>4, <1>5, <1>6, <1>7, <1>8, <1>9, <1>10, <1>11, <1>12, <1>13
     DEF Next, WritesTmp

\* No window runs at first, and nothing is promised.
LEMMA PromiseInit == Init => Promise
<1> SUFFICES ASSUME Init PROVE Promise
  OBVIOUS
<1>1. /\ Off.pc = "off" /\ Off.alone = FALSE /\ Off.seen = {} /\ Off.prev_buffers = Off.owed
  BY DEF Off
<1>2. \A w \in Windows : win[w] = Off
  BY DEF Init
<1>3. Kept(Off, clock, load)
  BY <1>1 DEF Kept, MergeInputs, CopyIsOwed, CleanIsSaved, FlagTaken, SameLease
<1> QED
  BY <1>1, <1>2, <1>3 DEF Promise, AloneExcludes

\* The promise covers what a closed window leaves behind.
LEMMA PromiseRemembered == TypeOK /\ Promise => SessionRemembered
<1> SUFFICES ASSUME TypeOK, Promise, NEW w \in Windows,
                    win[w].pc = "exited", win[w].alone, ~win[w].failed
             PROVE  /\ load.size = apply_window_section(win[w].current.size)
                    /\ \A n \in Symbols : Alive(load.previous_buffers[n]) = Alive(win[w].owed[n])
  BY DEF SessionRemembered
<1>1. Kept(win[w], clock, load)
  BY DEF Promise
<1>2. ~win[w].dirty
  BY <1>1 DEF Kept, FlagTaken
<1>3. /\ load.size = apply_window_section(win[w].current.size)
      /\ load.previous_buffers = win[w].current.previous_buffers
  BY <1>1, <1>2 DEF Kept, CleanIsSaved
<1>4. clock \in Nat /\ win[w] \in Window
  BY DEF TypeOK
<1>5. ASSUME NEW n \in Symbols PROVE Alive(load.previous_buffers[n]) = Alive(win[w].owed[n])
  <2>1. SameLease(load.previous_buffers[n], win[w].owed[n], clock)
    BY <1>1, <1>3 DEF Kept, CopyIsOwed
  <2>2. load.previous_buffers[n] \in Nat /\ win[w].owed[n] \in Nat
    BY <1>4, LoadOK DEF Window, Snapshot
  <2> QED
    BY <1>4, <2>1, <2>2 DEF SameLease, Alive
<1> QED
  BY <1>3, <1>5

\* For any number of windows, any lease and any debounce: a window that was the
\* only one, whose last save succeeded and that was closed leaves behind its last
\* size and the entries it owes (merge_previous_buffers(), SettingsSaver and the
\* final flush in main()).
THEOREM Remembered == Spec => []SessionRemembered
<1>1. Init => Promise
  BY PromiseInit
<1>2. (TypeOK /\ RenamesSnapshot) /\ Promise /\ [Next]_vars => Promise'
  BY PromiseStep
<1>3. TypeOK /\ Promise => SessionRemembered
  BY PromiseRemembered
<1> QED
  BY <1>1, <1>2, <1>3, RenamesOwn, PTL DEF Spec
=============================================================================
