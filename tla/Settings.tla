------------------------------ MODULE Settings ------------------------------
(***************************************************************************)
(* The settings file and the viewer windows that share it                  *)
(* (host/settings/, and apply_settings, persist_settings_if_dirty and the  *)
(* final flush in main.cpp).  Windows start, run frames, are closed or     *)
(* killed, and start again; two may run at once.  Of the settings the      *)
(* model keeps the window's size, which the loader may refuse, and the     *)
(* list of buffers to restore, which a session merges with its own.        *)
(*                                                                         *)
(* Wall clock and frame clock are one counter of seconds.  The list is a   *)
(* function from symbols to the second a symbol's entry expires, 0 for     *)
(* none; its order is not kept.                                            *)
(***************************************************************************)
EXTENDS Integers, FiniteSets

CONSTANTS Windows,     \* window processes
          Symbols,     \* debugger variables
          Files,       \* names of buffers opened from a file
          Sizes,       \* sizes the user gives a window; 0 is a minimised one
          TTL,         \* 86400 in the source
          DebounceS,   \* 0.75 in the source
          MaxTime,     \* bound of the clock
          MaxStarts,   \* bound: windows started
          MaxChanges,  \* bound: buffers plotted, opened or deleted, and resizes
          MaxFailures  \* bound: file-system calls that fail

ASSUME SettingsAssumption ==
    /\ Symbols \cap Files = {}
    /\ Sizes \subseteq Nat
    /\ TTL \in Nat \ {0} /\ DebounceS \in Nat
    /\ MaxTime \in Nat /\ MaxStarts \in Nat /\ MaxChanges \in Nat /\ MaxFailures \in Nat

VARIABLES
    file,          \* content of the settings file
    tmp,           \* content of the temporary files, by name
    clock,
    win,           \* the windows, see Window
    starts, changes, failures

vars == <<file, tmp, clock, win, starts, changes, failures>>

Missing == [kind |-> "missing"]
Partial == [kind |-> "partial"]   \* a file that was opened but not fully written
Nothing == [kind |-> "nothing"]
DEFAULT_SIZE == 768
NoBuffers == [n \in Symbols |-> 0]
Defaults == [size |-> DEFAULT_SIZE, previous_buffers |-> NoBuffers]

\* A window: its frame loop (pc), buffer model and size; the merge's inputs
\* (seen, prev_buffers); the SettingsSaver (current, dirty, last_save).  The
\* last four say what the session promises: the entries owed to the user, and
\* whether the promise stands (no other window started, the last save did not
\* fail; torn: closing the temporary file of the save under way lost its bytes).
Off == [pc |-> "off", model |-> {}, size |-> DEFAULT_SIZE, seen |-> {},
        prev_buffers |-> NoBuffers, current |-> Defaults, dirty |-> FALSE,
        last_save |-> 0, exiting |-> FALSE, owed |-> NoBuffers, alone |-> FALSE, failed |-> FALSE,
        torn |-> FALSE]

Init ==
    /\ file = Missing
    /\ tmp = [w \in Windows |-> Missing]
    /\ clock = 1
    /\ win = [w \in Windows |-> Off]
    /\ starts = 0 /\ changes = 0 /\ failures = 0

Running(w) == win[w].pc \notin {"off", "exited"}
-----------------------------------------------------------------------------
(* SettingsStore::load() *)

\* apply_window_section(): a size outside 100..16384 is replaced.
apply_window_section(size) == IF size \in 100..16384 THEN size ELSE DEFAULT_SIZE

\* A missing or malformed file yields the defaults.
load ==
    IF file \in {Missing, Partial} THEN Defaults
    ELSE [file EXCEPT !.size = apply_window_section(@)]

\* main(): loads the settings, creates the window at their size, and seeds the
\* saver and the list with them.
Start(w) ==
    /\ ~Running(w) /\ starts < MaxStarts
    /\ starts' = starts + 1
    /\ win' = [v \in Windows |->
                 IF v # w THEN [win[v] EXCEPT !.alone = FALSE]
                 ELSE [Off EXCEPT !.pc = "idle", !.size = load.size, !.current = load,
                                  !.prev_buffers = load.previous_buffers,
                                  !.last_save = -DebounceS,
                                  !.owed = load.previous_buffers,
                                  !.alone = \A v2 \in Windows \ {w} : ~Running(v2)]]
    /\ UNCHANGED <<file, tmp, clock, changes, failures>>
-----------------------------------------------------------------------------
(* The frame *)

Update(w, r) == win' = [win EXCEPT ![w] = r]

\* FrameLoop::tick(): the window was not asked to close.
BeginFrame(w) ==
    /\ win[w].pc = "idle"
    /\ Update(w, [win[w] EXCEPT !.pc = "frame"])
    /\ UNCHANGED <<file, tmp, clock, starts, changes, failures>>

\* A plot arrives in the frame's poll, or in the poll of pace() between frames;
\* a file is opened.
Upsert(w, n) ==
    /\ win[w].pc = "frame" \/ (win[w].pc = "idle" /\ n \in Symbols)
    /\ changes < MaxChanges
    /\ changes' = changes + 1
    /\ Update(w, [win[w] EXCEPT !.model = @ \cup {n}])
    /\ UNCHANGED <<file, tmp, clock, starts, failures>>

\* The Delete key.  The merge knows a deletion by a buffer having been in the
\* model at the end of some frame.
Delete(w, n) ==
    /\ win[w].pc = "frame" /\ n \in win[w].model
    /\ changes < MaxChanges
    /\ changes' = changes + 1
    /\ Update(w, [win[w] EXCEPT
                    !.model = @ \ {n},
                    !.owed = [s \in Symbols |-> IF s = n /\ n \in win[w].seen THEN 0 ELSE win[w].owed[s]]])
    /\ UNCHANGED <<file, tmp, clock, starts, failures>>

Resize(w, s) ==
    /\ win[w].pc = "frame" /\ s # win[w].size
    /\ changes < MaxChanges
    /\ changes' = changes + 1
    /\ Update(w, [win[w] EXCEPT !.size = s])
    /\ UNCHANGED <<file, tmp, clock, starts, failures>>

\* Mutant of merge_previous_buffers(): forgets what was deleted this session.
Bug_MergeIgnoresSeen(prior, loaded, seen, now) ==
    [n \in Symbols |-> IF n \in loaded THEN now + TTL
                       ELSE IF prior[n] <= now THEN 0 ELSE prior[n]]

\* Every loaded buffer is renewed; an older entry stays if it was never loaded
\* in this session and has not expired.
merge_previous_buffers(prior, loaded, seen, now) ==
    [n \in Symbols |-> IF n \in loaded THEN now + TTL
                       ELSE IF n \in seen \/ prior[n] <= now THEN 0 ELSE prior[n]]

\* SettingsSaver::update(): the held copy follows the live one; it is saved if
\* it is dirty and the last save is long enough ago.
update(r, live) ==
    LET dirty == r.dirty \/ live # r.current
        due == dirty /\ clock - r.last_save >= DebounceS IN
    [r EXCEPT !.current = live, !.dirty = dirty /\ ~due,
              !.last_save = IF due THEN clock ELSE @,
              !.pc = IF due THEN "save" ELSE "idle"]

\* persist_settings_if_dirty(), the last thing of a frame.  Local files are
\* neither seen nor listed.
persist_settings_if_dirty(w) ==
    /\ win[w].pc = "frame"
    /\ LET r == win[w]
           loaded == r.model \ Files
           seen == r.seen \cup loaded
           list == merge_previous_buffers(r.prev_buffers, loaded, seen, clock) IN
       Update(w, update([r EXCEPT !.seen = seen, !.prev_buffers = list,
                                  !.owed = [n \in Symbols |->
                                              IF n \in loaded THEN clock + TTL ELSE @[n]]],
                        [size |-> r.size, previous_buffers |-> list]))
    /\ UNCHANGED <<file, tmp, clock, starts, changes, failures>>

\* The window is asked to close: main() leaves the loop and flushes the saver.
Close(w) ==
    /\ win[w].pc = "idle"
    /\ Update(w, [win[w] EXCEPT !.exiting = TRUE, !.dirty = FALSE,
                                !.pc = IF win[w].dirty THEN "save" ELSE "exited"])
    /\ UNCHANGED <<file, tmp, clock, starts, changes, failures>>
-----------------------------------------------------------------------------
(* SettingsStore::save() *)

\* Mutant: one temporary name for all.
Bug_SharedTmp(w) == CHOOSE v \in Windows : TRUE

\* "<file>.<pid>.<counter>.tmp": one window saves one snapshot at a time.
TmpName(w) == w

AfterSave(w, failed) ==
    Update(w, [win[w] EXCEPT !.pc = IF win[w].exiting THEN "exited" ELSE "idle",
                             !.failed = failed, !.torn = FALSE])

\* Opening the temporary file truncates it.
OpenTmp(w) ==
    /\ win[w].pc = "save"
    /\ tmp' = [tmp EXCEPT ![TmpName(w)] = Partial]
    /\ Update(w, [win[w] EXCEPT !.pc = "write"])
    /\ UNCHANGED <<file, clock, starts, changes, failures>>

\* os << json, and the check of the stream: no error so far.  The last bytes
\* are still in the stream's buffer.
WriteTmp(w) ==
    /\ win[w].pc = "write"
    /\ Update(w, [win[w] EXCEPT !.pc = "close"])
    /\ UNCHANGED <<file, tmp, clock, starts, changes, failures>>

\* The temporary file cannot be opened, or the check finds a failed write: it is
\* removed, and the snapshot is given up; the saver does not learn of it.
WriteFails(w) ==
    /\ win[w].pc \in {"save", "write"}
    /\ failures < MaxFailures
    /\ failures' = failures + 1
    /\ tmp' = [tmp EXCEPT ![TmpName(w)] = Missing]
    /\ AfterSave(w, TRUE)
    /\ UNCHANGED <<file, clock, starts, changes>>

\* The stream's destructor flushes what it still holds.
CloseTmp(w) ==
    /\ win[w].pc = "close"
    /\ tmp' = [tmp EXCEPT ![TmpName(w)] = win[w].current]
    /\ Update(w, [win[w] EXCEPT !.pc = "rename"])
    /\ UNCHANGED <<file, clock, starts, changes, failures>>

\* The flush or the close fails (disk full, quota): a destructor reports
\* nothing, the truncated file stays, and the save goes on to the rename.
CloseFails(w) ==
    /\ win[w].pc = "close"
    /\ failures < MaxFailures
    /\ failures' = failures + 1
    /\ Update(w, [win[w] EXCEPT !.pc = "rename", !.torn = TRUE])
    /\ UNCHANGED <<file, tmp, clock, starts, changes>>

Rename(w) ==
    /\ win[w].pc = "rename" /\ tmp[TmpName(w)] # Missing
    /\ file' = tmp[TmpName(w)]
    /\ tmp' = [tmp EXCEPT ![TmpName(w)] = Missing]
    /\ AfterSave(w, win[w].torn)
    /\ UNCHANGED <<clock, starts, changes, failures>>

RenameFails(w) ==
    /\ win[w].pc = "rename"
    /\ failures < MaxFailures
    /\ failures' = failures + 1
    /\ tmp' = [tmp EXCEPT ![TmpName(w)] = Missing]
    /\ AfterSave(w, TRUE)
    /\ UNCHANGED <<file, clock, starts, changes>>

\* The process is killed anywhere; a temporary file stays behind.
Crash(w) ==
    /\ Running(w)
    /\ Update(w, Off)
    /\ UNCHANGED <<file, tmp, clock, starts, changes, failures>>

Tick ==
    /\ clock < MaxTime
    /\ clock' = clock + 1
    /\ UNCHANGED <<file, tmp, win, starts, changes, failures>>

Next ==
    \/ \E w \in Windows :
          \/ Start(w) \/ BeginFrame(w) \/ persist_settings_if_dirty(w) \/ Close(w) \/ Crash(w)
          \/ OpenTmp(w) \/ WriteTmp(w) \/ WriteFails(w) \/ CloseTmp(w) \/ CloseFails(w)
          \/ Rename(w) \/ RenameFails(w)
          \/ \E n \in Symbols \cup Files : Upsert(w, n) \/ Delete(w, n)
          \/ \E s \in Sizes : Resize(w, s)
    \/ Tick

Spec == Init /\ [][Next]_vars
-----------------------------------------------------------------------------
InSave(w) == win[w].pc \in {"save", "write", "close", "rename"}

Shared == INSTANCE SharedFile WITH
    Writers <- Windows,
    content <- file,
    saving <- [w \in Windows |-> IF InSave(w) THEN win[w].current ELSE Nothing],
    lost <- {w \in Windows : win[w].torn}

\* The file changes only by becoming, whole, the snapshot some window is saving
\* at that moment -- with two windows saving at once, writes and renames that
\* fail, and processes killed between any two steps ("lets each save complete
\* independently", SettingsStore::save()) -- or by being torn by a window that
\* lost its own bytes when it closed its temporary file, as nothing looks at the
\* close: only so is "writes atomically" (settings_store.h) not true of it.
FileIsAtomic == Shared!Spec

\* An entry that would still be restored.
Alive(expiry) == IF expiry > clock THEN expiry ELSE 0

\* A window that was the only one, whose last save succeeded (whatever became of
\* those before it) and that was closed, not killed, leaves its last frame's size
\* behind, and for the next session the entries it owes: what was loaded at the
\* last frame's end, renewed; what was waiting to be reloaded, unchanged until it
\* expires; nothing the user deleted.  Whatever the debounce held back and however
\* the session before ended (merge_previous_buffers(), SettingsSaver, "so the last
\* frame's geometry/prefs/buffer list aren't silently dropped", main()).
SessionRemembered ==
    \A w \in Windows :
        (win[w].pc = "exited" /\ win[w].alone /\ ~win[w].failed) =>
            /\ load.size = apply_window_section(win[w].current.size)
            /\ \A n \in Symbols :
                  Alive(load.previous_buffers[n]) = Alive(win[w].owed[n])
=============================================================================
