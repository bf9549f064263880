---------------------------- MODULE ViewerFrame ----------------------------
(***************************************************************************)
(* One viewer window's frame loop (main.cpp): the buffer model, the Stage  *)
(* of each buffer, the thumbnails of the buffer list, the selection, and   *)
(* everything that reads or changes them in the course of a frame -- plots *)
(* that arrived, agent requests, opened files, the list, the toolbar, the  *)
(* canvas and an export.  All of it runs on one thread, in the order of    *)
(* pc; what interleaves is the outside: when a plot arrives, what an agent *)
(* asks, what the user presses, and which GL calls fail.                   *)
(*                                                                         *)
(* A record's bytes stand for the plot that brought them, numbered from 1. *)
(* A Stage holds a span into the record (span) and the revision it was     *)
(* synced at; upsert() and remove() free the record behind the span.  The  *)
(* GL context is one table of texture names and the pixels under them; a   *)
(* Stage (its tiles counted as one texture) and a thumbnail hold names,    *)
(* and nothing but the code's own order keeps a name from being used after *)
(* it was deleted and handed out again.  Every plot here is one            *)
(* Buffer::configure() takes, which SizeRules establishes.                 *)
(***************************************************************************)
EXTENDS Integers, Sequences, FiniteSets, SequencesExt

CONSTANTS Symbols,      \* names plotted by the debugger
          Files,        \* names of buffers opened from a file
          Channels,     \* channel counts a plot may have
          TextureNames, \* bound: names the GL context hands out
          LowestFirst,  \* whether the driver hands out the lowest free name
          Requests,     \* channels an agent asks for
          MaxPlots,     \* bound: plots and files opened
          MaxFailures   \* bound: GL initialisations, shader builds and renders that fail

ASSUME FrameAssumption ==
    /\ Symbols \cap Files = {}
    /\ Channels \subseteq 1..4 /\ Requests \subseteq 0..2
    /\ TextureNames \subseteq Nat \ {0}
    /\ LowestFirst \in BOOLEAN
    /\ MaxPlots \in Nat /\ MaxFailures \in Nat

VARIABLES
    pc,             \* where in the frame the thread is
    storage,        \* IpcBufferModel: records, in list order
    next_slot_rev, plots,
    by_name,        \* StageManager: the Stage of each name
    buff_tex,       \* Buffer: the texture name each Stage holds
    shader_failed,  \* history: a Stage could not rebuild its shader
    textures,       \* GL: the plot under each name in use, 0 for none or no one plot
    entries,        \* ThumbnailCache
    rendered_this_frame,
    selected,       \* UiState::selected_, 1-based and not clamped
    row,            \* list row being drawn
    used,           \* plots whose bytes the last step read through a Stage
    failures

modelVars == <<storage, next_slot_rev, plots>>
stageVars == <<by_name, buff_tex, shader_failed, failures>>
listVars == <<entries, rendered_this_frame, row>>
vars == <<pc, modelVars, stageVars, textures, listVars, selected, used>>

Names == Symbols \cup Files
Live == {storage[i].name : i \in DOMAIN storage}
IndexOf(n) == CHOOSE i \in DOMAIN storage : storage[i].name = n  \* model_index_of()
Record(n) == storage[IndexOf(n)]
Empty == [n \in {} |-> 0]

Init ==
    /\ pc = "poll"
    /\ storage = <<>> /\ next_slot_rev = 1 /\ plots = 0
    /\ by_name = Empty /\ buff_tex = Empty /\ textures = Empty /\ entries = Empty
    /\ shader_failed = FALSE
    /\ rendered_this_frame = FALSE
    /\ selected = 1 /\ row = 1 /\ used = {} /\ failures = 0
-----------------------------------------------------------------------------
(* IpcBufferModel and UiState *)

\* Mutant of upsert(): each slot counts its own revisions.
Bug_SlotRevisions(n, c) ==
    LET r == [name |-> n, channels |-> c, plot |-> plots + 1,
              revision |-> IF n \in Live THEN Record(n).revision + 1 ELSE 1] IN
    /\ plots < MaxPlots
    /\ plots' = plots + 1
    /\ storage' = IF n \in Live THEN [storage EXCEPT ![IndexOf(n)] = r]
                  ELSE Append(storage, r)
    /\ next_slot_rev' = next_slot_rev + 1

\* A record replaces the one under its name, or joins the end of the list.
upsert(n, c) ==
    LET r == [name |-> n, channels |-> c, plot |-> plots + 1, revision |-> next_slot_rev] IN
    /\ plots < MaxPlots
    /\ plots' = plots + 1
    /\ storage' = IF n \in Live THEN [storage EXCEPT ![IndexOf(n)] = r]
                  ELSE Append(storage, r)
    /\ next_slot_rev' = next_slot_rev + 1

\* UiState::selected(): clamped when it is read.
Selected == IF selected <= Len(storage) THEN selected ELSE Len(storage)
has_selection == storage # <<>>
SelectedName == storage[Selected].name
-----------------------------------------------------------------------------
(* Pixel layouts: Buffer, shader_pixel_layout.h, natural_pixel_layout.h *)

DEFAULT_PIXEL_LAYOUT == "rgba"
ISOLATION_LAYOUTS == <<"rrra", "ggga", "bbba">>
NoChannel == 3   \* not an index a request can name
All == -1
Absent == -2     \* a request without a channel

\* The layout a debugger plot declares; a file with other than four channels
\* declares none (file_buffer_loader.cpp).
Declared(n) == IF n \in Files THEN "" ELSE "bgra"

\* Component named by the first letter of a layout.
Component(layout) ==
    CASE layout = "ggga" -> 1
      [] layout \in {"bbba", "bgra"} -> 2
      [] OTHER -> 0

shader_pixel_layout(layout, texture_channels) ==
    IF texture_channels = 1 THEN "rgba" ELSE layout

selected_channel_index(layout, texture_channels) ==
    IF Component(layout) < texture_channels THEN Component(layout) ELSE 0

\* natural_pixel_layout(): a record's own layout, else the default.  A debugger
\* record with more than one channel always has a valid layout here (IpcClient).
natural_pixel_layout(n) ==
    IF Declared(n) = "" THEN DEFAULT_PIXEL_LAYOUT ELSE Declared(n)

\* What the user or an agent last asked of the buffer: a channel, or all.
Isolate(s, i) == [s EXCEPT !.layout = ISOLATION_LAYOUTS[i + 1], !.mode = 1, !.asked = i]
ShowAll(s, layout) == [s EXCEPT !.layout = layout, !.mode = All, !.asked = NoChannel]
-----------------------------------------------------------------------------
(* StageManager *)

\* Mutant of Buffer::configure(): an update takes the declared layout again.
Bug_ConfigureResetsLayout(s, n) ==
    [s EXCEPT !.span = Record(n).plot, !.channels = Record(n).channels,
              !.layout = natural_pixel_layout(n)]

\* Buffer::configure() of a Stage that has textures: layout and mode stay.
configure(s, n) == [s EXCEPT !.span = Record(n).plot, !.channels = Record(n).channels]

\* Stage::initialize() of a new buffer takes the layout the record declares.
initialize(n) ==
    [revision |-> Record(n).revision, span |-> Record(n).plot,
     channels |-> Record(n).channels, mode |-> All, asked |-> NoChannel,
     layout |-> natural_pixel_layout(n)]

\* Stage::buffer_update(), whether or not it succeeds: sync() records the
\* revision all the same.
buffer_update(n) == [configure(by_name[n], n) EXCEPT !.revision = Record(n).revision]

\* What create_shader_program() compiles the Stage's program for.  It is built
\* anew, and may fail, when this changes, or when its last build did not link;
\* one that did not compile is taken for built (ShaderProgram::create()).  Which
\* of the two it was, and of which Stage, is not kept.
Program(s) == <<IF s.mode = All THEN s.channels ELSE s.mode,
                shader_pixel_layout(s.layout, s.channels)>>
Rebuilds(s, t) == shader_failed \/ Program(s) # Program(t)

\* Names whose Stage sync() has to build or rebuild.
Outdated ==
    {n \in Live : n \notin DOMAIN by_name \/ by_name[n].revision # Record(n).revision}

\* Mutant of sync(): only builds what is missing.
Bug_SyncSkipsReplots(failed) ==
    [n \in (Live \cap DOMAIN by_name) \cup (Live \ failed) |->
        IF n \notin DOMAIN by_name THEN initialize(n) ELSE by_name[n]]

\* The Stages after sync(), where the GL calls for the names in failed fail.
Synced(failed) ==
    [n \in (Live \cap DOMAIN by_name) \cup (Live \ failed) |->
        IF n \notin DOMAIN by_name THEN initialize(n)
        ELSE IF by_name[n].revision # Record(n).revision THEN buffer_update(n)
        ELSE by_name[n]]

\* The sets of failures a sync() may meet: a new Stage, for any reason, or an
\* update whose shader does not build.
Failing ==
    {f \in SUBSET Outdated :
        \A n \in f \cap DOMAIN by_name : Rebuilds(by_name[n], configure(by_name[n], n))}
-----------------------------------------------------------------------------
(* Texture names: Buffer::buffer_update(), setup_gl_buffer(), ~Buffer() *)

\* A driver hands out names that are not in use, whether or not anybody still
\* remembers them; deleting one that is not in use does nothing.
glGenTextures(inUse) ==
    LET free == TextureNames \ inUse IN
    IF LowestFirst THEN {g \in free : \A h \in free : g <= h} ELSE free
Made(tx, g) == [h \in DOMAIN tx \cup {g} |-> IF h \in DOMAIN tx THEN tx[h] ELSE 0]
glDeleteTextures(tx, gone) == Restrict(tx, DOMAIN tx \ gone)

\* sync() goes through the list, then destroys the Stages of removed buffers.
Turn(n) == IF n \in Live THEN IndexOf(n) ELSE Len(storage) + 1

\* Names deleted between two turns of a sync(): an update deletes what the
\* Stage holds before anything else, a destroyed Stage what it holds last,
\* be it in use still or not.
Deleted(from, to) ==
    {buff_tex[n] : n \in {m \in DOMAIN buff_tex \ (Live \ Outdated) : Turn(m) \in from..to}}

\* The Stages whose name, issued in this sync(), nothing deleted up to turn i.
Lasting(issued, i) ==
    {n \in DOMAIN issued : Turn(n) < i /\ issued[n] \notin Deleted(Turn(n) + 1, i)}
InUse(issued, i) ==
    (DOMAIN textures \ Deleted(1, i)) \cup {issued[n] : n \in Lasting(issued, i)}

\* The names the Stages built in a sync() may be given.
Issues(failed) ==
    {issued \in [Outdated \ failed -> TextureNames] :
        \A n \in DOMAIN issued : issued[n] \in glGenTextures(InUse(issued, Turn(n)))}

\* The textures when sync() is done: each Stage built uploads its record.
setup_gl_buffer(issued) ==
    LET end == Len(storage) + 1
        built == Lasting(issued, end) IN
    [g \in InUse(issued, end) |->
        IF \E n \in built : issued[n] = g
        THEN Record(CHOOSE n \in built : issued[n] = g).plot ELSE textures[g]]

\* What a Stage holds after sync(): an update that fails keeps the name it has
\* deleted, for the next draw, update or destructor to use.
sync(st, issued) ==
    buff_tex' = [n \in DOMAIN st |-> IF n \in DOMAIN issued THEN issued[n] ELSE buff_tex[n]]

\* k GL calls fail, of them those of the updates in failed, and the rebuild for
\* a new layout if relaid; both leave a Stage without a program of its own.
Fail(failed, relaid, k) ==
    /\ failures' = failures + k
    /\ failures' <= MaxFailures
    /\ shader_failed' = (shader_failed \/ relaid \/ failed \cap DOMAIN by_name # {})
-----------------------------------------------------------------------------
(* The frame *)

\* IpcClient::poll(): a plot is complete, or a message changes nothing here.
PlotArrives(n, c) ==
    /\ pc = "poll"
    /\ upsert(n, c)
    /\ used' = {}
    /\ UNCHANGED <<pc, stageVars, textures, listVars, selected>>

\* Mutant of begin_frame(): the budget is not given back.
Bug_BudgetNotReset == rendered_this_frame' = rendered_this_frame

begin_frame == rendered_this_frame' = FALSE

\* evict_missing(): an entry's texture goes with it.
evict_missing ==
    /\ entries' = Restrict(entries, DOMAIN entries \cap Live)
    /\ textures' = glDeleteTextures(textures, {entries[n].tex : n \in DOMAIN entries \ Live})

EndPoll ==
    /\ pc = "poll"
    /\ begin_frame /\ evict_missing
    /\ pc' = "agent" /\ used' = {}
    /\ UNCHANGED <<modelVars, stageVars, row, selected>>

\* NativeViewModel::set_channel() on the Stage s of n.
set_channel(s, n, channel) ==
    CASE channel = All -> ShowAll(s, natural_pixel_layout(n))
      [] channel \in 0..(s.channels - 1) -> Isolate(s, channel)
      [] OTHER -> s

\* handle_set_view(): every field is validated against the model before any
\* is applied.  A request that names a buffer selects it, one that does not is
\* for the selected one.  A buffer whose Stage cannot be built is selected all
\* the same, and refused.  Requests are also drained while pace() waits for the
\* next frame (pc "poll").
handle_set_view(n, channel) ==
    /\ pc \in {"poll", "agent"}
    /\ n \in Live
    /\ channel < IF Record(n).channels < 3 THEN Record(n).channels ELSE 3
    /\ \E f \in Failing, relaid \in BOOLEAN : \E issued \in Issues(f) :
          LET st == Synced(f)
              set == [st EXCEPT ![n] = set_channel(@, n, channel)] IN
          /\ Fail(f, relaid, Cardinality(f) + IF relaid THEN 1 ELSE 0)
          /\ relaid => n \in DOMAIN st /\ Rebuilds(st[n], set[n])
          /\ by_name' = IF n \in DOMAIN st THEN set ELSE st
          /\ sync(st, issued) /\ textures' = setup_gl_buffer(issued)
    /\ \/ selected' = IndexOf(n)
       \/ n = SelectedName /\ selected' = selected
    /\ used' = {}
    /\ UNCHANGED <<pc, modelVars, listVars>>

EndDrain ==
    /\ pc = "agent"
    /\ pc' = "files" /\ used' = {}
    /\ UNCHANGED <<modelVars, stageVars, textures, listVars, selected>>

\* process_pending_file_opens(): a file that loads joins the model.
OpenFile(n, c) ==
    /\ pc = "files"
    /\ upsert(n, c)
    /\ used' = {}
    /\ UNCHANGED <<pc, stageVars, textures, listVars, selected>>

\* draw_buffer_list() begins: Up and Down move the clamped selection.
BeginList(to) ==
    /\ pc = "files"
    /\ \/ selected' = selected
       \/ has_selection /\ to \in DOMAIN storage /\ to - Selected \in {-1, 1} /\ selected' = to
    /\ pc' = "rows" /\ row' = 1 /\ used' = {}
    /\ UNCHANGED <<modelVars, stageVars, textures, entries, rendered_this_frame>>

UpToDate(n) == n \in DOMAIN entries /\ entries[n].revision = Record(n).revision
PutEntry(n, e) == [m \in DOMAIN entries \cup {n} |-> IF m = n THEN e ELSE entries[m]]

\* GlfwCanvas::render_buffer_icon(): the Stage as the texture it names has it;
\* the camera is put back afterwards.  GL refuses to bind the name of a texture
\* or a program that was deleted: nothing is drawn, or what was bound before
\* (0), or, when the name was handed out again, what it stands for now.
render_buffer_icon(tx, g, broken) ==
    {tx[h] : h \in {g} \cap DOMAIN tx} \cup IF broken THEN {0} ELSE {}

\* glTexImage2D() into the texture g, or whichever was bound if g is gone.
glTexImage2D(tx, g, pic) ==
    IF g \in DOMAIN tx THEN {[tx EXCEPT ![g] = pic]}
    ELSE {tx} \cup {[tx EXCEPT ![h] = pic] : h \in DOMAIN tx}

\* texture_for(): the icon of n is rendered from its Stage and uploaded under g.
RenderIcon(n, g, tx) ==
    /\ \E pic \in render_buffer_icon(tx, buff_tex'[n], shader_failed') :
          textures' \in glTexImage2D(tx, g, pic)
    /\ used' = {by_name'[n].span}
    /\ entries' = PutEntry(n, [revision |-> Record(n).revision, tex |-> g, failed |-> FALSE])

\* A render that fails leaves a good older picture in place, to be tried again;
\* without one the failure is recorded at this revision.
RenderFails(n, g, tx) ==
    /\ textures' = tx /\ used' = {}
    /\ entries' = IF n \in DOMAIN entries /\ ~entries[n].failed THEN entries
                  ELSE PutEntry(n, [revision |-> Record(n).revision, tex |-> g, failed |-> TRUE])

\* draw_buffer_list_row(): the Stage is looked up, the thumbnail is fetched --
\* its texture is made the first time -- and a click selects the row.
draw_buffer_list_row(click) ==
    /\ pc = "rows" /\ row <= Len(storage)
    /\ \E f \in Failing : \E issued \in Issues(f) :
          LET n == storage[row].name
              st == Synced(f)
              tx == setup_gl_buffer(issued)
              k == Cardinality(f) IN
          /\ by_name' = st /\ sync(st, issued)
          /\ IF UpToDate(n) \/ rendered_this_frame \/ n \notin DOMAIN st
             THEN /\ textures' = tx /\ used' = {} /\ Fail(f, FALSE, k)
                  /\ UNCHANGED <<entries, rendered_this_frame>>
             ELSE /\ rendered_this_frame' = TRUE
                  /\ IF n \in DOMAIN entries
                     THEN \/ Fail(f, FALSE, k) /\ RenderIcon(n, entries[n].tex, tx)
                          \/ Fail(f, FALSE, k + 1) /\ RenderFails(n, entries[n].tex, tx)
                     ELSE \E g \in glGenTextures(DOMAIN tx) :
                          \/ Fail(f, FALSE, k) /\ RenderIcon(n, g, Made(tx, g))
                          \/ Fail(f, FALSE, k + 1) /\ RenderFails(n, g, Made(tx, g))
    /\ selected' = IF click THEN row ELSE selected
    /\ row' = row + 1
    /\ UNCHANGED <<pc, modelVars>>

\* handle_buffer_list_delete_key(), after the last row.
EndList(delete) ==
    /\ pc = "rows" /\ row > Len(storage)
    /\ delete => has_selection
    /\ storage' = IF delete THEN RemoveAt(storage, Selected) ELSE storage
    /\ pc' = "toolbar" /\ row' = 1 /\ used' = {}
    /\ UNCHANGED <<next_slot_rev, plots, stageVars, textures, entries, rendered_this_frame,
                   selected>>

\* apply_format(): the five entries of the Format combo.
apply_format(s, format) ==
    CASE format = "BGRA" -> ShowAll(s, "bgra")
      [] format = "RGBA" -> ShowAll(s, "rgba")
      [] format = "channel0" -> Isolate(s, 0)
      [] format = "channel1" -> Isolate(s, 1)
      [] format = "channel2" -> Isolate(s, 2)
      [] OTHER -> s
Formats == {"none", "BGRA", "RGBA", "channel0", "channel1", "channel2"}

\* draw_toolbar(): the combo is enabled for three channels or more.
draw_toolbar(format) ==
    /\ pc = "toolbar"
    /\ \E f \in Failing, relaid \in BOOLEAN : \E issued \in Issues(f) :
          LET st == Synced(f)
              set == [st EXCEPT ![SelectedName] = apply_format(@, format)] IN
          /\ Fail(f, relaid, Cardinality(f) + IF relaid THEN 1 ELSE 0)
          /\ format # "none" => /\ has_selection /\ SelectedName \in DOMAIN st
                                /\ st[SelectedName].channels >= 3
          /\ relaid => format # "none" /\ Rebuilds(st[SelectedName], set[SelectedName])
          /\ by_name' = IF format = "none" THEN st ELSE set
          /\ sync(st, issued) /\ textures' = setup_gl_buffer(issued)
    /\ pc' = "canvas" /\ used' = {}
    /\ UNCHANGED <<modelVars, listVars, selected>>

\* Drawing a Stage reads its bytes for the pixel values (Stage::draw()).
ReadsStage(st, shown) == {st[n].span : n \in shown \cap DOMAIN st}

\* A panel that looks up the Stages of shown and reads through them.
Show(shown) ==
    \E f \in Failing : \E issued \in Issues(f) :
        LET st == Synced(f) IN
        /\ by_name' = st /\ sync(st, issued) /\ textures' = setup_gl_buffer(issued)
        /\ used' = ReadsStage(st, shown)
        /\ Fail(f, FALSE, Cardinality(f))

draw_canvas_pane ==
    /\ pc = "canvas"
    /\ Show(IF has_selection THEN {SelectedName} ELSE {})
    /\ pc' = "status"
    /\ UNCHANGED <<modelVars, listVars, selected>>

\* draw_status_bar(), for the pixel under the cursor.
draw_status_bar ==
    /\ pc = "status"
    /\ IF has_selection THEN Show({SelectedName})
       ELSE used' = {} /\ UNCHANGED <<stageVars, textures>>
    /\ pc' = "export"
    /\ UNCHANGED <<modelVars, listVars, selected>>

\* handle_export_requests(): the dialog was opened for a buffer by name, which
\* may have been deleted or replotted since.
handle_export_requests(n) ==
    /\ pc = "export"
    /\ IF n \in Live THEN Show({n}) ELSE used' = {} /\ UNCHANGED <<stageVars, textures>>
    /\ pc' = "poll"
    /\ UNCHANGED <<modelVars, listVars, selected>>

NoExport ==
    /\ pc = "export"
    /\ pc' = "poll" /\ used' = {}
    /\ UNCHANGED <<modelVars, stageVars, textures, listVars, selected>>

Frame ==
    \/ EndPoll \/ EndDrain
    \/ \E to \in 1..(Len(storage) + 1) : BeginList(to)
    \/ \E click \in BOOLEAN : draw_buffer_list_row(click)
    \/ \E delete \in BOOLEAN : EndList(delete)
    \/ \E format \in Formats : draw_toolbar(format)
    \/ draw_canvas_pane \/ draw_status_bar
    \/ NoExport \/ \E n \in Names : handle_export_requests(n)

Next ==
    \/ Frame
    \/ \E n \in Symbols, c \in Channels : PlotArrives(n, c)
    \/ \E n \in Files, c \in Channels : OpenFile(n, c)
    \/ \E n \in Names, channel \in {Absent, All} \cup Requests : handle_set_view(n, channel)

\* The frame loop keeps running until the window closes.
Spec == Init /\ [][Next]_vars /\ WF_vars(Frame)
-----------------------------------------------------------------------------
\* Nothing reads a buffer through a span into a record that was replaced or
\* removed: sync() runs between every change of the model and every use of a
\* Stage, whichever panel or request makes it ("before any dangling reference
\* could be observed", StageManager::sync()).
SpanLive == used \subseteq {storage[i].plot : i \in DOMAIN storage}

\* The pixels under the texture name g are those of n's record.
Shows(g, n) == g \in DOMAIN textures /\ textures[g] = Record(n).plot

\* What counts as up to date is: a Stage at its record's revision names a texture
\* that is in use and holds the plot on record, and so does a thumbnail at that
\* revision unless its render failed; also when the name was deleted and plotted
\* again between two looks at it (slot revisions, StageManager, ThumbnailCache)
\* and names deleted in between were handed out again.  It ends with the first
\* shader that fails to rebuild: sync() then records the revision of a Stage that
\* has only the names of the textures it deleted.
RevisionMeansContent ==
    ~shader_failed =>
        \A n \in Live :
            /\ n \in DOMAIN by_name /\ by_name[n].revision = Record(n).revision
                  => Shows(buff_tex[n], n)
            /\ UpToDate(n) /\ ~entries[n].failed => Shows(entries[n].tex, n)

\* A channel isolated by the user or an agent is the one the shader is asked to be
\* compiled for and the one get_view reports, through any number of replots, whenever the buffer
\* has that channel ("This preserves user-selected pixel formats when buffer
\* updates", Buffer::configure()).
IsolationKept ==
    \A n \in DOMAIN by_name :
        LET s == by_name[n] IN
        s.asked < NoChannel /\ s.asked < s.channels =>
            /\ s.mode = 1
            /\ selected_channel_index(s.layout, s.channels) = s.asked
            /\ Program(s)[1] = 1 /\ Component(Program(s)[2]) = s.asked

\* Once plots and GL failures cease every row's thumbnail settles, one render a
\* frame ("the rest catch up on later frames", ThumbnailCache): it shows its
\* buffer, unless the render at this revision failed with no picture to fall back
\* on.  That row stays blank until its buffer is plotted again, as the code does
\* not retry such a render; each blank row costs a failure of its own.
ThumbnailsCatchUp ==
    <>[](/\ \A n \in Live : /\ UpToDate(n)
                            /\ Shows(entries[n].tex, n) \/ entries[n].failed \/ shader_failed
         /\ Cardinality({n \in DOMAIN entries : entries[n].failed}) <= failures)
=============================================================================
