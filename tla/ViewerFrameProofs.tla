------------------------- MODULE ViewerFrameProofs -------------------------
(***************************************************************************)
(* Proofs about one window's frame loop (ViewerFrame), for every set of    *)
(* names, every number of plots and of failing GL calls, and every driver  *)
(* that hands out texture names not in use: what is read through a Stage   *)
(* is on record, what counts as up to date shows what is on record until a *)
(* shader fails to rebuild, and an isolated channel stays isolated.        *)
(***************************************************************************)
EXTENDS ViewerFrame, TLAPS

Layouts == {"rgba", "bgra", "rrra", "ggga", "bbba"}
Slot == [name : Names, channels : Channels, plot : Nat, revision : Nat]
StageType == [revision : Nat, span : Nat, channels : Nat, mode : Int,
              asked : 0..NoChannel, layout : Layouts]

\* The model lists each name once, with a revision that was handed out.
Listed(list, rev) ==
    /\ list \in Seq(Slot)
    /\ \A i, j \in DOMAIN list : list[i].name = list[j].name => i = j
    /\ \A i \in DOMAIN list : list[i].revision < rev

\* A Stage of n: its revision was handed out, the channel asked for is the one in
\* layout and mode, and if its revision is the record's it looks into that record.
StageHolds(s, n, list, rev) ==
    /\ s \in StageType
    /\ s.revision < rev
    /\ s.asked < NoChannel => s.mode = 1 /\ s.layout = ISOLATION_LAYOUTS[s.asked + 1]
    /\ \A i \in DOMAIN list :
          list[i].name = n /\ list[i].revision = s.revision =>
              s.span = list[i].plot

\* The revision of a thumbnail was handed out.
PictureHolds(e, rev) == e.revision \in Nat /\ e.revision < rev

\* No two Stages or thumbnails hold one texture name, and each name is in use.
Apart(bt, tx, pics) ==
    /\ \A m, n \in DOMAIN bt : bt[m] = bt[n] => m = n
    /\ \A m, n \in DOMAIN pics : pics[m].tex = pics[n].tex => m = n
    /\ \A m \in DOMAIN bt, n \in DOMAIN pics : bt[m] # pics[n].tex
    /\ \A n \in DOMAIN bt : bt[n] \in DOMAIN tx
    /\ \A n \in DOMAIN pics : pics[n].tex \in DOMAIN tx

\* The pixels under the names of the Stages and thumbnails that have the revision
\* of a record are that record's.
TexturesHold(stages, bt, tx, pics, list) ==
    /\ DOMAIN bt = DOMAIN stages
    /\ Apart(bt, tx, pics)
    /\ \A n \in DOMAIN stages, i \in DOMAIN list :
          list[i].name = n /\ list[i].revision = stages[n].revision =>
              tx[bt[n]] = list[i].plot
    /\ \A n \in DOMAIN pics, i \in DOMAIN list :
          list[i].name = n /\ list[i].revision = pics[n].revision /\ ~pics[n].failed =>
              tx[pics[n].tex] = list[i].plot

\* The inductive invariant.  Revisions are never handed out twice, so what is left
\* over from a record that was replaced or deleted never carries the revision of
\* the one that is there now; and as long as every shader is rebuilt, every name
\* a Stage or a thumbnail remembers is its own, so no other's texture is drawn,
\* overwritten or deleted under it.
Inv ==
    /\ plots \in Nat /\ next_slot_rev \in Nat
    /\ selected \in Nat \ {0} /\ row \in Nat \ {0}
    /\ Listed(storage, next_slot_rev)
    /\ \A n \in DOMAIN by_name : StageHolds(by_name[n], n, storage, next_slot_rev)
    /\ \A n \in DOMAIN entries : PictureHolds(entries[n], next_slot_rev)
    /\ ~shader_failed => TexturesHold(by_name, buff_tex, textures, entries, storage)
-----------------------------------------------------------------------------
\* What a record carries.
LEMMA SlotFields ==
    ASSUME NEW r \in Slot
    PROVE  r.name \in Names /\ r.plot \in Nat /\ r.revision \in Nat /\ r.channels \in 1..4
           /\ r.channels \in Nat
<1>1. Channels \subseteq 1..4
  BY FrameAssumption
<1>2. r.name \in Names /\ r.plot \in Nat /\ r.revision \in Nat /\ r.channels \in Channels
  BY DEF Slot
<1>3. r.channels \in 1..4
  BY <1>1, <1>2
<1>4. r.channels \in Nat
  BY <1>3
<1> QED
  BY <1>2, <1>3, <1>4

\* model_index_of() finds a listed buffer where it is.
LEMMA IndexOfListed ==
    ASSUME Inv, NEW i \in DOMAIN storage
    PROVE  IndexOf(storage[i].name) = i /\ Record(storage[i].name) = storage[i]
<1>1. \A j \in DOMAIN storage : storage[j].name = storage[i].name => j = i
  BY DEF Inv, Listed
<1>2. IndexOf(storage[i].name) = i
  BY <1>1 DEF IndexOf
<1> QED
  BY <1>2 DEF Record

\* A live buffer has its one place in the list.
LEMMA LiveListed ==
    ASSUME Inv, NEW n \in Live
    PROVE  /\ IndexOf(n) \in DOMAIN storage /\ Record(n) = storage[IndexOf(n)]
           /\ Record(n).name = n /\ Record(n) \in Slot /\ Record(n).revision < next_slot_rev
           /\ \A i \in DOMAIN storage : storage[i].name = n => i = IndexOf(n)
<1>1. PICK i \in DOMAIN storage : storage[i].name = n
  BY DEF Live
<1>2. IndexOf(n) = i /\ Record(n) = storage[i]
  BY <1>1, IndexOfListed
<1>3. storage[i] \in Slot /\ storage[i].revision < next_slot_rev
  BY <1>1 DEF Inv, Listed
<1>4. \A j \in DOMAIN storage : storage[j].name = n => j = i
  BY <1>1 DEF Inv, Listed
<1> QED
  BY <1>1, <1>2, <1>3, <1>4

\* A pixel layout a record declares is one of the five.
LEMMA NaturalLayout ==
    ASSUME NEW n
    PROVE  natural_pixel_layout(n) \in Layouts
BY DEF natural_pixel_layout, Declared, DEFAULT_PIXEL_LAYOUT, Layouts

\* A new Stage looks into the record it was made from (Stage::initialize()).
LEMMA Initialized ==
    ASSUME Inv, NEW n \in Live
    PROVE  StageHolds(initialize(n), n, storage, next_slot_rev)
           /\ initialize(n).span = Record(n).plot /\ initialize(n).revision = Record(n).revision
<1> DEFINE s == initialize(n)
<1>1. /\ IndexOf(n) \in DOMAIN storage /\ Record(n) = storage[IndexOf(n)]
      /\ Record(n) \in Slot /\ Record(n).revision < next_slot_rev
      /\ \A i \in DOMAIN storage : storage[i].name = n => i = IndexOf(n)
  BY LiveListed
<1>2. Record(n).revision \in Nat /\ Record(n).plot \in Nat /\ Record(n).channels \in Nat
  BY <1>1, SlotFields
<1> DEFINE lay == natural_pixel_layout(n)
<1>3. lay \in Layouts
  BY NaturalLayout
<1> HIDE DEF lay
<1>4. s = [revision |-> Record(n).revision, span |-> Record(n).plot,
           channels |-> Record(n).channels, mode |-> All, asked |-> NoChannel, layout |-> lay]
  BY DEF initialize, lay
<1> HIDE DEF s
<1>5. s \in StageType
  BY <1>2, <1>3, <1>4 DEF StageType, All, NoChannel
<1>6. s.revision = Record(n).revision /\ s.span = Record(n).plot /\ s.asked = NoChannel
  BY <1>4
<1> QED
  BY <1>1, <1>5, <1>6 DEF StageHolds, NoChannel, s

\* A Stage that was updated looks into the present record; layout and mode stay
\* (Stage::buffer_update(), Buffer::configure()).
LEMMA Updated ==
    ASSUME Inv, NEW n \in Live, n \in DOMAIN by_name
    PROVE  StageHolds(buffer_update(n), n, storage, next_slot_rev)
           /\ buffer_update(n).span = Record(n).plot
           /\ buffer_update(n).revision = Record(n).revision
<1> DEFINE s == buffer_update(n)
           b == by_name[n]
<1>1. /\ IndexOf(n) \in DOMAIN storage /\ Record(n) = storage[IndexOf(n)]
      /\ Record(n) \in Slot /\ Record(n).revision < next_slot_rev
      /\ \A i \in DOMAIN storage : storage[i].name = n => i = IndexOf(n)
  BY LiveListed
<1> DEFINE rv == Record(n).revision
           pl == Record(n).plot
           ch == Record(n).channels
<1>2. rv \in Nat /\ pl \in Nat /\ ch \in Nat
  BY <1>1, SlotFields
<1>3. b \in StageType /\ (b.asked < NoChannel => b.mode = 1 /\ b.layout = ISOLATION_LAYOUTS[b.asked + 1])
  BY DEF Inv, StageHolds
<1> DEFINE c == [b EXCEPT !.span = pl, !.channels = ch]
<1>4. c \in StageType /\ c.span = pl /\ c.mode = b.mode /\ c.asked = b.asked /\ c.layout = b.layout
  <2> HIDE DEF b, pl, ch
  <2> QED
    BY <1>2, <1>3 DEF StageType
<1>5. s = [c EXCEPT !.revision = rv]
  BY DEF buffer_update, configure
<1> HIDE DEF c, s
<1>6. /\ s \in StageType /\ s.span = pl /\ s.mode = b.mode /\ s.asked = b.asked
      /\ s.layout = b.layout /\ s.revision = rv
  <2> HIDE DEF b, pl, ch, rv
  <2> QED
    BY <1>2, <1>4, <1>5 DEF StageType
<1> QED
  BY <1>1, <1>3, <1>6 DEF StageHolds, s

\* What sync() leaves: a Stage only for live buffers, each at its record's
\* revision, whichever GL calls failed (StageManager::sync()).
LEMMA SyncedHolds ==
    ASSUME Inv, NEW f, NEW n \in DOMAIN Synced(f)
    PROVE  /\ n \in Live
           /\ StageHolds(Synced(f)[n], n, storage, next_slot_rev)
           /\ Synced(f)[n].span = Record(n).plot
           /\ Synced(f)[n].revision = Record(n).revision
<1>1. n \in Live
  BY DEF Synced
<1>2. CASE n \notin DOMAIN by_name
  <2>1. Synced(f)[n] = initialize(n)
    BY <1>2 DEF Synced
  <2> QED
    BY <1>1, <2>1, Initialized
<1>3. CASE n \in DOMAIN by_name /\ by_name[n].revision # Record(n).revision
  <2>1. Synced(f)[n] = buffer_update(n)
    BY <1>3 DEF Synced
  <2> QED
    BY <1>1, <1>3, <2>1, Updated
<1>4. CASE n \in DOMAIN by_name /\ by_name[n].revision = Record(n).revision
  <2>1. Synced(f)[n] = by_name[n]
    BY <1>4 DEF Synced
  <2>2. StageHolds(by_name[n], n, storage, next_slot_rev)
    BY <1>4 DEF Inv
  <2>3. /\ IndexOf(n) \in DOMAIN storage /\ Record(n) = storage[IndexOf(n)] /\ Record(n).name = n
    BY <1>1, LiveListed
  <2>4. by_name[n].span = Record(n).plot
    BY <1>4, <2>2, <2>3 DEF StageHolds
  <2> QED
    BY <1>1, <1>4, <2>1, <2>2, <2>4
<1> QED
  BY <1>1, <1>2, <1>3, <1>4

\* The bytes a synced Stage looks into are on record.
LEMMA SyncedSpan ==
    ASSUME Inv, NEW f, NEW n \in DOMAIN Synced(f)
    PROVE  Synced(f)[n].span \in {storage[i].plot : i \in DOMAIN storage}
<1>1. n \in Live /\ Synced(f)[n].span = Record(n).plot
  BY SyncedHolds
<1>2. IndexOf(n) \in DOMAIN storage /\ Record(n) = storage[IndexOf(n)]
  BY <1>1, LiveListed
<1> QED
  BY <1>1, <1>2

\* A Stage with another layout, mode and channel asked for.
RelaidAs(r, s, lay, m, a) == r = [s EXCEPT !.layout = lay, !.mode = m, !.asked = a]

\* It is a Stage, and the same in everything else.
LEMMA Relaid ==
    ASSUME NEW s \in StageType, NEW lay \in Layouts, NEW m \in Int, NEW a \in 0..NoChannel, NEW r,
           RelaidAs(r, s, lay, m, a)
    PROVE  /\ r \in StageType /\ r.revision = s.revision /\ r.span = s.span
           /\ r.asked = a /\ r.mode = m /\ r.layout = lay
<1>0. r = [s EXCEPT !.layout = lay, !.mode = m, !.asked = a]
  BY DEF RelaidAs
<1>1. r.layout = lay /\ r.mode = m /\ r.asked = a
  BY <1>0 DEF StageType
<1>2. r.revision = s.revision /\ r.span = s.span /\ r.channels = s.channels
  BY <1>0 DEF StageType
<1>3. DOMAIN r = DOMAIN s /\ r = [x \in DOMAIN r |-> r[x]]
  BY <1>0
<1>4. DOMAIN s = {"revision", "span", "channels", "mode", "asked", "layout"}
  BY DEF StageType
<1>5. /\ s.revision \in Nat /\ s.span \in Nat /\ s.channels \in Nat
  BY <1>0 DEF StageType
<1>6. r \in StageType
  BY <1>1, <1>2, <1>3, <1>4, <1>5 DEF StageType
<1> QED
  BY <1>1, <1>2, <1>6

\* A Stage that looks into the same record as s did, at the same revision.
Stays(r, s, n, list, rev) == StageHolds(r, n, list, rev) /\ r.revision = s.revision

\* What an agent or the user may do to a Stage: nothing but its layout, mode and
\* the channel asked for changes, and these agree afterwards.
LEMMA ViewSet ==
    ASSUME NEW s, NEW n, NEW list, NEW rev, StageHolds(s, n, list, rev)
    PROVE  /\ \A i \in 0..2 : Stays(Isolate(s, i), s, n, list, rev)
           /\ \A lay \in Layouts : Stays(ShowAll(s, lay), s, n, list, rev)
           /\ \A channel \in {Absent, All, 0, 1, 2} :
                 Stays(set_channel(s, n, channel), s, n, list, rev)
           /\ \A format \in Formats : Stays(apply_format(s, format), s, n, list, rev)
<1>0. s \in StageType
  BY DEF StageHolds
<1>1. ASSUME NEW i \in 0..2
      PROVE  Stays(Isolate(s, i), s, n, list, rev)
  <2> DEFINE r == Isolate(s, i)
             lay == ISOLATION_LAYOUTS[i + 1]
  <2>1. lay \in Layouts
    BY DEF ISOLATION_LAYOUTS, Layouts
  <2>2. RelaidAs(r, s, lay, 1, i)
    BY DEF RelaidAs, Isolate
  <2> HIDE DEF r, lay
  <2>5. i \in 0..NoChannel /\ 1 \in Int
    BY DEF NoChannel
  <2>3. /\ r \in StageType /\ r.revision = s.revision /\ r.span = s.span
        /\ r.asked = i /\ r.mode = 1 /\ r.layout = lay
    BY <1>0, <2>1, <2>2, <2>5, Relaid
  <2> QED
    BY <2>3 DEF StageHolds, Stays, r, lay
<1>2. ASSUME NEW lay \in Layouts
      PROVE  Stays(ShowAll(s, lay), s, n, list, rev)
  <2> DEFINE r == ShowAll(s, lay)
  <2>2. RelaidAs(r, s, lay, All, NoChannel)
    BY DEF RelaidAs, ShowAll
  <2> HIDE DEF r
  <2>5. NoChannel \in 0..NoChannel /\ All \in Int
    BY DEF NoChannel, All
  <2>3. /\ r \in StageType /\ r.revision = s.revision /\ r.span = s.span
        /\ r.asked = NoChannel
    BY <1>0, <2>2, <2>5, Relaid
  <2>4. ~(r.asked < NoChannel)
    BY <2>3 DEF NoChannel
  <2> QED
    BY <2>3, <2>4 DEF StageHolds, Stays, r
<1>3. ASSUME NEW channel \in {Absent, All, 0, 1, 2}
      PROVE  Stays(set_channel(s, n, channel), s, n, list, rev)
  <2>1. CASE channel = All
    BY <1>2, <2>1, NaturalLayout DEF set_channel, All
  <2>2. CASE channel # All /\ channel \in 0..(s.channels - 1)
    <3>1. set_channel(s, n, channel) = Isolate(s, channel)
      BY <2>2 DEF set_channel
    <3>2. channel \in 0..2
      BY <2>2 DEF All, Absent
    <3> QED
      BY <1>1, <3>1, <3>2
  <2>3. CASE channel # All /\ channel \notin 0..(s.channels - 1)
    <3>1. set_channel(s, n, channel) = s
      BY <2>3 DEF set_channel
    <3> QED
      BY <3>1 DEF Stays
  <2> QED
    BY <2>1, <2>2, <2>3
<1>4. ASSUME NEW format \in Formats
      PROVE  Stays(apply_format(s, format), s, n, list, rev)
  <2>1. CASE format = "none"
    <3>1. apply_format(s, format) = s
      BY <2>1 DEF apply_format
    <3> QED
      BY <3>1 DEF Stays
  <2>2. CASE format = "BGRA"
    BY <1>2, <2>2 DEF apply_format, Layouts
  <2>3. CASE format = "RGBA"
    BY <1>2, <2>3 DEF apply_format, Layouts
  <2>4. CASE format = "channel0"
    BY <1>1, <2>4 DEF apply_format
  <2>5. CASE format = "channel1"
    BY <1>1, <2>5 DEF apply_format
  <2>6. CASE format = "channel2"
    BY <1>1, <2>6 DEF apply_format
  <2> QED
    BY <2>1, <2>2, <2>3, <2>4, <2>5, <2>6 DEF Formats
<1> QED
  BY <1>1, <1>2, <1>3, <1>4
-----------------------------------------------------------------------------
\* A list that came from list: a slot is an old one or carries a newer revision
\* than any so far.
Derived(list, rev, list2, rev2) ==
    /\ rev \in Nat /\ rev2 \in Nat /\ rev <= rev2
    /\ list2 \in Seq(Slot)
    /\ \A i \in DOMAIN list2 :
          list2[i].revision >= rev \/ \E k \in DOMAIN list : list2[i] = list[k]

\* A record of the new list with a revision handed out before is one of the old.
LEMMA OldRecord ==
    ASSUME NEW list, NEW rev, NEW list2, NEW rev2, Derived(list, rev, list2, rev2),
           NEW i \in DOMAIN list2, list2[i].revision < rev
    PROVE  \E k \in DOMAIN list : list2[i] = list[k]
<1>1. list2[i] \in Slot
  BY DEF Derived
<1>2. list2[i].revision \in Nat
  BY <1>1, SlotFields
<1> QED
  BY <1>2 DEF Derived

\* What a Stage holds outlives the record it was made from.
LEMMA CarriedOver ==
    ASSUME NEW list, NEW rev, NEW list2, NEW rev2, Derived(list, rev, list2, rev2), NEW s, NEW n
    PROVE  /\ StageHolds(s, n, list, rev) => StageHolds(s, n, list2, rev2)
           /\ PictureHolds(s, rev) => PictureHolds(s, rev2)
<1>1. ASSUME StageHolds(s, n, list, rev)
      PROVE  StageHolds(s, n, list2, rev2)
  <2>1. s \in StageType /\ s.revision \in Nat /\ s.revision < rev /\ s.revision < rev2
    BY <1>1 DEF StageHolds, StageType, Derived
  <2>2. ASSUME NEW i \in DOMAIN list2, list2[i].name = n, list2[i].revision = s.revision
        PROVE  s.span = list2[i].plot
    <3>1. PICK k \in DOMAIN list : list2[i] = list[k]
      BY <2>1, <2>2, OldRecord
    <3> QED
      BY <1>1, <2>2, <3>1 DEF StageHolds
  <2> QED
    BY <1>1, <2>1, <2>2 DEF StageHolds
<1>2. PictureHolds(s, rev) => PictureHolds(s, rev2)
  BY DEF PictureHolds, Derived
<1> QED
  BY <1>1, <1>2

\* So do the pixels under the names it remembers.
LEMMA TexturesCarriedOver ==
    ASSUME NEW list, NEW rev, NEW list2, NEW rev2, Derived(list, rev, list2, rev2),
           NEW stages, NEW bt, NEW tx, NEW pics, TexturesHold(stages, bt, tx, pics, list),
           \A n \in DOMAIN stages : stages[n].revision < rev,
           \A n \in DOMAIN pics : pics[n].revision < rev
    PROVE  TexturesHold(stages, bt, tx, pics, list2)
<1>1. ASSUME NEW n \in DOMAIN stages, NEW i \in DOMAIN list2,
             list2[i].name = n, list2[i].revision = stages[n].revision
      PROVE  tx[bt[n]] = list2[i].plot
  <2>1. PICK k \in DOMAIN list : list2[i] = list[k]
    BY <1>1, OldRecord
  <2> QED
    BY <1>1, <2>1 DEF TexturesHold
<1>2. ASSUME NEW n \in DOMAIN pics, NEW i \in DOMAIN list2,
             list2[i].name = n, list2[i].revision = pics[n].revision, ~pics[n].failed
      PROVE  tx[pics[n].tex] = list2[i].plot
  <2>1. PICK k \in DOMAIN list : list2[i] = list[k]
    BY <1>2, OldRecord
  <2> QED
    BY <1>2, <2>1 DEF TexturesHold
<1> QED
  BY <1>1, <1>2 DEF TexturesHold

\* upsert() replaces the record of its name or adds one, under a new revision
\* (IpcBufferModel::upsert()).
LEMMA Upserted ==
    ASSUME Inv, NEW n \in Names, NEW c \in Channels, upsert(n, c)
    PROVE  /\ plots' \in Nat /\ next_slot_rev' \in Nat
           /\ Listed(storage', next_slot_rev')
           /\ Derived(storage, next_slot_rev, storage', next_slot_rev')
<1> DEFINE r == [name |-> n, channels |-> c, plot |-> plots + 1, revision |-> next_slot_rev]
<1>0. /\ plots \in Nat /\ next_slot_rev \in Nat /\ storage \in Seq(Slot)
      /\ \A i, j \in DOMAIN storage : storage[i].name = storage[j].name => i = j
      /\ \A i \in DOMAIN storage : storage[i].revision < next_slot_rev
  BY DEF Inv, Listed
<1>1. /\ plots' = plots + 1 /\ next_slot_rev' = next_slot_rev + 1
      /\ storage' = IF n \in Live THEN [storage EXCEPT ![IndexOf(n)] = r] ELSE Append(storage, r)
  BY DEF upsert
<1>2. r \in Slot /\ r.name = n /\ r.revision = next_slot_rev
  BY <1>0 DEF Slot
<1> HIDE DEF r
<1>3. /\ storage' \in Seq(Slot)
      /\ \A i \in DOMAIN storage' :
            \/ storage'[i] = r
            \/ i \in DOMAIN storage /\ storage'[i] = storage[i] /\ storage[i].name # n
      /\ \A i, j \in DOMAIN storage' : storage'[i] = r /\ storage'[j] = r => i = j
  <2>1. CASE n \in Live
    <3>1. /\ IndexOf(n) \in DOMAIN storage
          /\ \A i \in DOMAIN storage : storage[i].name = n => i = IndexOf(n)
      BY <2>1, LiveListed
    <3> DEFINE k == IndexOf(n)
    <3> HIDE DEF k
    <3>2. storage' = [storage EXCEPT ![k] = r] /\ k \in DOMAIN storage
      BY <1>1, <2>1, <3>1 DEF k
    <3>3. storage' \in Seq(Slot) /\ DOMAIN storage' = DOMAIN storage
      BY <1>0, <1>2, <3>2
    <3>4. \A i \in DOMAIN storage : storage[i].name = n => i = k
      BY <3>1 DEF k
    <3> QED
      BY <1>2, <3>2, <3>3, <3>4
  <2>2. CASE n \notin Live
    <3>1. \A i \in DOMAIN storage : storage[i].name # n
      BY <2>2 DEF Live
    <3>2. storage' = Append(storage, r)
      BY <1>1, <2>2
    <3>3. /\ storage' \in Seq(Slot) /\ DOMAIN storage' = 1..(Len(storage) + 1)
          /\ DOMAIN storage = 1..Len(storage) /\ Len(storage) \in Nat
          /\ \A i \in DOMAIN storage : storage'[i] = storage[i]
          /\ storage'[Len(storage) + 1] = r
      BY <1>0, <1>2, <3>2
    <3>4. \A i \in DOMAIN storage' : i \in DOMAIN storage \/ i = Len(storage) + 1
      BY <3>3
    <3> QED
      BY <1>2, <3>1, <3>3, <3>4
  <2> QED
    BY <2>1, <2>2
<1>4. \A i \in DOMAIN storage' : storage'[i].revision < next_slot_rev'
  <2>1. \A i \in DOMAIN storage : storage[i].revision \in Nat
    BY <1>0, SlotFields
  <2> QED
    BY <1>0, <1>1, <1>2, <1>3, <2>1
<1>5. Listed(storage', next_slot_rev')
  BY <1>0, <1>2, <1>3, <1>4 DEF Listed
<1>6. Derived(storage, next_slot_rev, storage', next_slot_rev')
  BY <1>0, <1>1, <1>2, <1>3 DEF Derived
<1> QED
  BY <1>0, <1>1, <1>5, <1>6

\* Deleting a buffer leaves the others as they were
\* (handle_buffer_list_delete_key()).
LEMMA Removed ==
    ASSUME Inv, storage # <<>>
    PROVE  LET list == RemoveAt(storage, Selected) IN
           Listed(list, next_slot_rev) /\ Derived(storage, next_slot_rev, list, next_slot_rev)
<1> DEFINE x == Selected
           m == Len(storage)
           list == RemoveAt(storage, x)
           at == [i \in 1..(m - 1) |-> IF i < x THEN i ELSE i + 1]
<1>0. /\ next_slot_rev \in Nat /\ storage \in Seq(Slot) /\ selected \in Nat \ {0}
      /\ \A i, j \in DOMAIN storage : storage[i].name = storage[j].name => i = j
      /\ \A i \in DOMAIN storage : storage[i].revision < next_slot_rev
  BY DEF Inv, Listed
<1>1. m \in Nat \ {0} /\ DOMAIN storage = 1..m
  BY <1>0
<1>2. x \in 1..m
  BY <1>0, <1>1 DEF Selected
<1>3. list = SubSeq(storage, 1, x - 1) \o SubSeq(storage, x + 1, m)
  BY DEF RemoveAt
<1> HIDE DEF x, m, list
<1>4. /\ SubSeq(storage, 1, x - 1) \in Seq(Slot) /\ Len(SubSeq(storage, 1, x - 1)) = x - 1
      /\ \A i \in 1..(x - 1) : SubSeq(storage, 1, x - 1)[i] = storage[i]
  BY <1>0, <1>1, <1>2
<1>5. /\ SubSeq(storage, x + 1, m) \in Seq(Slot) /\ Len(SubSeq(storage, x + 1, m)) = m - x
      /\ \A i \in 1..(m - x) : SubSeq(storage, x + 1, m)[i] = storage[x + i]
  BY <1>0, <1>1, <1>2
<1>6. list \in Seq(Slot) /\ Len(list) = m - 1 /\ DOMAIN list = 1..(m - 1)
  BY <1>1, <1>2, <1>3, <1>4, <1>5
<1>7. \A i \in 1..(m - 1) : at[i] \in 1..m /\ list[i] = storage[at[i]]
  <2> DEFINE front == SubSeq(storage, 1, x - 1)
             back  == SubSeq(storage, x + 1, m)
  <2>1. ASSUME NEW i \in 1..(m - 1), i < x
        PROVE  at[i] \in 1..m /\ list[i] = storage[at[i]]
    <3>1. i \in 1..(x - 1)
      BY <1>2, <2>1
    <3>2. list[i] = front[i]
      <4> HIDE DEF front, back
      <4>1. front \in Seq(Slot) /\ back \in Seq(Slot) /\ Len(front) = x - 1 /\ list = front \o back
        BY <1>3, <1>4, <1>5 DEF front, back
      <4> QED
        BY <1>2, <3>1, <4>1
    <3> QED
      BY <1>1, <1>2, <1>4, <2>1, <3>1, <3>2
  <2>2. ASSUME NEW i \in 1..(m - 1), ~(i < x)
        PROVE  at[i] \in 1..m /\ list[i] = storage[at[i]]
    <3>1. i - (x - 1) \in 1..(m - x) /\ x + (i - (x - 1)) = i + 1
      BY <1>1, <1>2, <2>2
    <3>2. list[i] = back[i - (x - 1)]
      <4> HIDE DEF front, back
      <4>1. /\ front \in Seq(Slot) /\ back \in Seq(Slot) /\ list = front \o back
            /\ Len(front) = x - 1 /\ Len(back) = m - x
        BY <1>3, <1>4, <1>5 DEF front, back
      <4> QED
        BY <1>1, <1>2, <2>2, <3>1, <4>1
    <3>3. back[i - (x - 1)] = storage[i + 1]
      BY <1>5, <3>1
    <3> QED
      BY <1>1, <1>2, <2>2, <3>2, <3>3
  <2> QED
    BY <2>1, <2>2
<1>8. \A i, j \in 1..(m - 1) : at[i] = at[j] => i = j
  BY <1>1, <1>2
<1> HIDE DEF at
<1>9. Listed(list, next_slot_rev)
  <2>1. \A i, j \in DOMAIN list : list[i].name = list[j].name => i = j
    BY <1>0, <1>1, <1>6, <1>7, <1>8
  <2>2. \A i \in DOMAIN list : list[i].revision < next_slot_rev
    BY <1>0, <1>1, <1>6, <1>7
  <2> QED
    BY <1>6, <2>1, <2>2 DEF Listed
<1>10. Derived(storage, next_slot_rev, list, next_slot_rev)
  BY <1>0, <1>1, <1>6, <1>7 DEF Derived
<1> QED
  BY <1>9, <1>10 DEF list, x
\* The names after a sync() in which no update failed.
NamesAfter(f, issued) ==
    [n \in DOMAIN Synced(f) |-> IF n \in DOMAIN issued THEN issued[n] ELSE buff_tex[n]]

\* A name that is handed out is one that is not in use.
LEMMA Unused ==
    ASSUME NEW inUse, NEW g \in glGenTextures(inUse)
    PROVE  g \in TextureNames /\ g \notin inUse
BY DEF glGenTextures

\* The turns of a sync() follow the list.
LEMMA Turns ==
    ASSUME Inv
    PROVE  /\ Len(storage) \in Nat
           /\ \A n : Turn(n) \in 1..(Len(storage) + 1)
           /\ \A n \in Live : Turn(n) \in 1..Len(storage)
           /\ \A m, n \in Live : Turn(m) = Turn(n) => m = n
<1>1. storage \in Seq(Slot) /\ Len(storage) \in Nat /\ DOMAIN storage = 1..Len(storage)
  BY DEF Inv, Listed
<1>2. ASSUME NEW n \in Live
      PROVE  Turn(n) \in 1..Len(storage) /\ storage[Turn(n)].name = n
  BY <1>1, LiveListed DEF Turn
<1>3. ASSUME NEW n
      PROVE  Turn(n) \in 1..(Len(storage) + 1)
  BY <1>1, <1>2 DEF Turn
<1>4. \A m, n \in Live : Turn(m) = Turn(n) => m = n
  BY <1>2
<1> QED
  BY <1>1, <1>2, <1>3, <1>4

\* What a sync() hands out: the name of a Stage it builds is deleted by no later
\* turn and handed out to no other, and it is none of those in use that no turn
\* deletes (Buffer::buffer_update(), Buffer::setup_gl_buffer(), ~Buffer()).
LEMMA Issued ==
    ASSUME Inv, ~shader_failed, NEW f, NEW issued \in Issues(f)
    PROVE  /\ DOMAIN issued = Outdated \ f /\ DOMAIN issued \subseteq Live
           /\ \A n \in DOMAIN issued : n \in Lasting(issued, Len(storage) + 1)
           /\ \A m, n \in DOMAIN issued : issued[m] = issued[n] => m = n
           /\ \A n \in DOMAIN issued :
                 issued[n] \notin DOMAIN textures \ Deleted(1, Len(storage) + 1)
<1> DEFINE end == Len(storage) + 1
<1>1. /\ DOMAIN issued = Outdated \ f
      /\ \A n \in DOMAIN issued : issued[n] \in glGenTextures(InUse(issued, Turn(n)))
  BY DEF Issues
<1>2. DOMAIN issued \subseteq Live
  BY <1>1 DEF Outdated
<1>3. /\ end \in Nat /\ \A n : Turn(n) \in 1..end
      /\ \A n \in DOMAIN issued : Turn(n) \in 1..end /\ Turn(n) < end
      /\ \A m, n \in DOMAIN issued : Turn(m) = Turn(n) => m = n
  BY <1>2, Turns
<1>4. \A n \in DOMAIN issued : issued[n] \notin InUse(issued, Turn(n))
  BY <1>1, Unused
<1>5. Apart(buff_tex, textures, entries)
  BY DEF Inv, TexturesHold
<1>6. ASSUME NEW n \in DOMAIN issued
      PROVE  issued[n] \notin Deleted(Turn(n) + 1, end)
  <2> SUFFICES ASSUME NEW m \in DOMAIN buff_tex, Turn(m) \in (Turn(n) + 1)..end,
                      issued[n] = buff_tex[m]
               PROVE  FALSE
    BY DEF Deleted
  <2>1. buff_tex[m] \in DOMAIN textures
    BY <1>5 DEF Apart
  <2>2. buff_tex[m] \notin Deleted(1, Turn(n))
    <3> SUFFICES ASSUME NEW l \in DOMAIN buff_tex, Turn(l) \in 1..Turn(n),
                        buff_tex[m] = buff_tex[l]
                 PROVE  FALSE
      BY DEF Deleted
    <3>1. m = l
      BY <1>5 DEF Apart
    <3> QED
      BY <1>3, <3>1
  <2>3. issued[n] \in InUse(issued, Turn(n))
    BY <2>1, <2>2 DEF InUse
  <2> QED
    BY <1>4, <2>3
<1>7. ASSUME NEW n \in DOMAIN issued, NEW i \in 1..end, Turn(n) < i
      PROVE  n \in Lasting(issued, i)
  <2>1. Deleted(Turn(n) + 1, i) \subseteq Deleted(Turn(n) + 1, end)
    BY <1>3 DEF Deleted
  <2> QED
    BY <1>6, <1>7, <2>1 DEF Lasting
<1>8. ASSUME NEW m \in DOMAIN issued, NEW n \in DOMAIN issued, Turn(m) < Turn(n)
      PROVE  issued[m] # issued[n]
  <2>1. m \in Lasting(issued, Turn(n))
    BY <1>3, <1>7, <1>8
  <2>2. issued[m] \in InUse(issued, Turn(n))
    BY <2>1 DEF InUse
  <2> QED
    BY <1>4, <2>2
<1>9. ASSUME NEW m \in DOMAIN issued, NEW n \in DOMAIN issued, issued[m] = issued[n]
      PROVE  m = n
  <2>1. ~(Turn(m) < Turn(n)) /\ ~(Turn(n) < Turn(m))
    BY <1>8, <1>9
  <2>2. Turn(m) = Turn(n)
    BY <1>3, <2>1
  <2> QED
    BY <1>3, <2>2
<1>10. ASSUME NEW n \in DOMAIN issued
       PROVE  issued[n] \notin DOMAIN textures \ Deleted(1, end)
  <2>1. Deleted(1, Turn(n)) \subseteq Deleted(1, end)
    BY <1>3 DEF Deleted
  <2> QED
    BY <1>4, <2>1 DEF InUse
<1>11. \A n \in DOMAIN issued : n \in Lasting(issued, end)
  BY <1>3, <1>7
<1> QED
  BY <1>1, <1>2, <1>9, <1>10, <1>11

\* The textures after a sync(): those built hold their records, those no turn
\* deletes are as they were.
LEMMA Uploaded ==
    ASSUME Inv, ~shader_failed, NEW f, NEW issued \in Issues(f)
    PROVE  LET tx == setup_gl_buffer(issued)
               end == Len(storage) + 1 IN
           /\ \A n \in DOMAIN issued :
                 issued[n] \in DOMAIN tx /\ tx[issued[n]] = Record(n).plot
           /\ \A g \in DOMAIN textures \ Deleted(1, end) :
                 g \in DOMAIN tx /\ tx[g] = textures[g]
<1> DEFINE end == Len(storage) + 1
           built == Lasting(issued, end)
           tx == setup_gl_buffer(issued)
<1>1. tx = [g \in InUse(issued, end) |->
              IF \E n \in built : issued[n] = g
              THEN Record(CHOOSE n \in built : issued[n] = g).plot ELSE textures[g]]
  BY DEF setup_gl_buffer
<1>2. built = DOMAIN issued
  <2>1. \A n \in DOMAIN issued : n \in built
    BY Issued
  <2>2. built \subseteq DOMAIN issued
    BY DEF Lasting
  <2> QED
    BY <2>1, <2>2
<1>3. /\ \A m, n \in DOMAIN issued : issued[m] = issued[n] => m = n
      /\ \A n \in DOMAIN issued : issued[n] \notin DOMAIN textures \ Deleted(1, end)
  BY Issued
<1>4. InUse(issued, end) = (DOMAIN textures \ Deleted(1, end)) \cup {issued[n] : n \in built}
  BY DEF InUse
<1> HIDE DEF built, tx, end
<1>5. ASSUME NEW n \in DOMAIN issued
      PROVE  issued[n] \in DOMAIN tx /\ tx[issued[n]] = Record(n).plot
  <2>1. (CHOOSE m \in built : issued[m] = issued[n]) = n
    BY <1>2, <1>3
  <2>2. issued[n] \in InUse(issued, end)
    BY <1>2, <1>4
  <2> QED
    BY <1>1, <1>2, <2>1, <2>2
<1>6. ASSUME NEW g \in DOMAIN textures \ Deleted(1, end)
      PROVE  g \in DOMAIN tx /\ tx[g] = textures[g]
  <2>1. ~\E n \in built : issued[n] = g
    BY <1>2, <1>3
  <2> QED
    BY <1>1, <1>4, <2>1
<1> QED
  BY <1>5, <1>6 DEF tx, end

\* So a sync() in which no update fails leaves every Stage and every thumbnail a
\* name of its own, and each Stage its record's pixels.
LEMMA SyncedTextures ==
    ASSUME Inv, ~shader_failed, NEW f, f \cap DOMAIN by_name = {}, NEW issued \in Issues(f)
    PROVE  /\ TexturesHold(Synced(f), NamesAfter(f, issued), setup_gl_buffer(issued), entries,
                           storage)
           /\ \A n \in DOMAIN Synced(f) :
                 setup_gl_buffer(issued)[NamesAfter(f, issued)[n]] = Record(n).plot
<1> DEFINE st == Synced(f)
           bt == NamesAfter(f, issued)
           tx == setup_gl_buffer(issued)
           kept == DOMAIN textures \ Deleted(1, Len(storage) + 1)
<1>1. /\ DOMAIN issued = Outdated \ f
      /\ \A m, n \in DOMAIN issued : issued[m] = issued[n] => m = n
      /\ \A n \in DOMAIN issued : issued[n] \notin kept
  BY Issued
<1>2. /\ \A n \in DOMAIN issued : issued[n] \in DOMAIN tx /\ tx[issued[n]] = Record(n).plot
      /\ \A g \in kept : g \in DOMAIN tx /\ tx[g] = textures[g]
  BY Uploaded
<1>3. TexturesHold(by_name, buff_tex, textures, entries, storage)
  BY DEF Inv
<1>4. Apart(buff_tex, textures, entries) /\ DOMAIN buff_tex = DOMAIN by_name
  BY <1>3 DEF TexturesHold
<1>5. DOMAIN bt = DOMAIN st
      /\ \A n \in DOMAIN st : bt[n] = IF n \in DOMAIN issued THEN issued[n] ELSE buff_tex[n]
  BY DEF NamesAfter
<1>6. ASSUME NEW n \in DOMAIN st
      PROVE  n \in Live /\ st[n].revision = Record(n).revision
  BY SyncedHolds
<1>7. ASSUME NEW n \in DOMAIN st, n \notin DOMAIN issued
      PROVE  n \in DOMAIN by_name /\ n \notin Outdated /\ by_name[n].revision = Record(n).revision
  <2>1. n \in DOMAIN by_name \/ n \notin f
    BY DEF Synced
  <2>2. n \notin Outdated
    BY <1>1, <1>7, <2>1
  <2> QED
    BY <1>6, <2>2 DEF Outdated
<1>8. ASSUME NEW n \in DOMAIN st, n \notin DOMAIN issued
      PROVE  buff_tex[n] \in kept
  <2>1. n \in DOMAIN buff_tex /\ n \in Live /\ n \notin Outdated
    BY <1>4, <1>6, <1>7, <1>8
  <2>2. buff_tex[n] \in DOMAIN textures
    BY <1>4, <2>1 DEF Apart
  <2>3. buff_tex[n] \notin Deleted(1, Len(storage) + 1)
    BY <1>4, <2>1 DEF Apart, Deleted
  <2> QED
    BY <2>2, <2>3
<1>9. ASSUME NEW n \in DOMAIN entries
      PROVE  entries[n].tex \in kept
  BY <1>4 DEF Apart, Deleted
<1>10. ASSUME NEW n \in DOMAIN st
       PROVE  bt[n] \in DOMAIN tx /\ tx[bt[n]] = Record(n).plot
  <2>1. CASE n \in DOMAIN issued
    BY <1>2, <1>5, <2>1
  <2>2. CASE n \notin DOMAIN issued
    <3>1. bt[n] = buff_tex[n] /\ bt[n] \in DOMAIN tx /\ tx[bt[n]] = textures[buff_tex[n]]
      BY <1>2, <1>5, <1>8, <2>2
    <3>2. n \in DOMAIN by_name /\ by_name[n].revision = Record(n).revision
      BY <1>7, <2>2
    <3>3. IndexOf(n) \in DOMAIN storage /\ Record(n) = storage[IndexOf(n)] /\ Record(n).name = n
      BY <1>6, LiveListed
    <3> QED
      BY <1>3, <3>1, <3>2, <3>3 DEF TexturesHold
  <2> QED
    BY <2>1, <2>2
<1> HIDE DEF st, bt, tx, kept
<1>11. Apart(bt, tx, entries)
  <2>1. ASSUME NEW m \in DOMAIN bt, NEW n \in DOMAIN bt, bt[m] = bt[n]
        PROVE  m = n
    <3>1. CASE m \in DOMAIN issued /\ n \in DOMAIN issued
      BY <1>1, <1>5, <2>1, <3>1
    <3>2. CASE m \in DOMAIN issued /\ n \notin DOMAIN issued
      BY <1>1, <1>5, <1>8, <2>1, <3>2
    <3>3. CASE m \notin DOMAIN issued /\ n \in DOMAIN issued
      BY <1>1, <1>5, <1>8, <2>1, <3>3
    <3>4. CASE m \notin DOMAIN issued /\ n \notin DOMAIN issued
      <4>1. m \in DOMAIN buff_tex /\ n \in DOMAIN buff_tex /\ buff_tex[m] = buff_tex[n]
        BY <1>4, <1>5, <1>7, <2>1, <3>4
      <4> QED
        BY <1>4, <4>1 DEF Apart
    <3> QED
      BY <3>1, <3>2, <3>3, <3>4
  <2>2. ASSUME NEW m \in DOMAIN bt, NEW n \in DOMAIN entries
        PROVE  bt[m] # entries[n].tex
    <3>1. CASE m \in DOMAIN issued
      BY <1>1, <1>5, <1>9, <3>1
    <3>2. CASE m \notin DOMAIN issued
      <4>1. m \in DOMAIN buff_tex /\ bt[m] = buff_tex[m]
        BY <1>4, <1>5, <1>7, <3>2
      <4> QED
        BY <1>4, <4>1 DEF Apart
    <3> QED
      BY <3>1, <3>2
  <2>3. \A n \in DOMAIN entries : entries[n].tex \in DOMAIN tx
    BY <1>2, <1>9
  <2>4. \A n \in DOMAIN bt : bt[n] \in DOMAIN tx
    BY <1>5, <1>10
  <2>5. \A m, n \in DOMAIN entries : entries[m].tex = entries[n].tex => m = n
    BY <1>4 DEF Apart
  <2> QED
    BY <2>1, <2>2, <2>3, <2>4, <2>5 DEF Apart
<1>12. ASSUME NEW n \in DOMAIN st, NEW i \in DOMAIN storage, storage[i].name = n
       PROVE  tx[bt[n]] = storage[i].plot
  <2>1. Record(n) = storage[i]
    BY <1>12, IndexOfListed
  <2> QED
    BY <1>10, <2>1
<1>13. ASSUME NEW n \in DOMAIN entries, NEW i \in DOMAIN storage, storage[i].name = n,
              storage[i].revision = entries[n].revision, ~entries[n].failed
       PROVE  tx[entries[n].tex] = storage[i].plot
  BY <1>2, <1>3, <1>9, <1>13 DEF TexturesHold
<1>14. TexturesHold(st, bt, tx, entries, storage)
  BY <1>5, <1>11, <1>12, <1>13 DEF TexturesHold
<1> QED
  BY <1>10, <1>14 DEF st, bt, tx

\* A Stage whose layout changes keeps its revision and its texture.
LEMMA TexturesRelaid ==
    ASSUME NEW stages, NEW bt, NEW tx, NEW pics, NEW list,
           TexturesHold(stages, bt, tx, pics, list),
           NEW stages2, DOMAIN stages2 = DOMAIN stages,
           \A n \in DOMAIN stages : stages2[n].revision = stages[n].revision
    PROVE  TexturesHold(stages2, bt, tx, pics, list)
BY DEF TexturesHold

\* The entry e of n is drawn under g, its own texture or one just made, and shows
\* the record of n if it has its revision.
DrawnUnder(n, g, tx, tx2, e, list) ==
    /\ IF n \in DOMAIN entries THEN g = entries[n].tex ELSE g \notin DOMAIN tx
    /\ DOMAIN tx2 = DOMAIN tx \cup {g}
    /\ \A h \in DOMAIN tx : h # g => tx2[h] = tx[h]
    /\ e.tex = g
    /\ \A i \in DOMAIN list :
          list[i].name = n /\ list[i].revision = e.revision /\ ~e.failed =>
              tx2[g] = list[i].plot

\* A thumbnail drawn into its own texture, or into one just made, disturbs no
\* other (ThumbnailCache::texture_for()).
LEMMA TexturesDrawn ==
    ASSUME NEW stages, NEW bt, NEW tx, NEW list,
           TexturesHold(stages, bt, tx, entries, list),
           NEW n, NEW g, NEW tx2, NEW e, DrawnUnder(n, g, tx, tx2, e, list)
    PROVE  TexturesHold(stages, bt, tx2, PutEntry(n, e), list)
<1> DEFINE pics2 == PutEntry(n, e)
<1>0. /\ IF n \in DOMAIN entries THEN g = entries[n].tex ELSE g \notin DOMAIN tx
      /\ DOMAIN tx2 = DOMAIN tx \cup {g}
      /\ \A h \in DOMAIN tx : h # g => tx2[h] = tx[h]
      /\ e.tex = g
      /\ \A i \in DOMAIN list :
            list[i].name = n /\ list[i].revision = e.revision /\ ~e.failed =>
                tx2[g] = list[i].plot
  BY DEF DrawnUnder
<1>1. /\ DOMAIN pics2 = DOMAIN entries \cup {n} /\ pics2[n] = e
      /\ \A m \in DOMAIN entries : m # n => pics2[m] = entries[m]
  BY DEF PutEntry
<1>2. Apart(bt, tx, entries) /\ DOMAIN bt = DOMAIN stages
  BY DEF TexturesHold
<1>3. \A m \in DOMAIN bt : bt[m] # g /\ bt[m] \in DOMAIN tx
  BY <1>0, <1>2 DEF Apart
<1>4. \A m \in DOMAIN entries : m # n => entries[m].tex # g /\ entries[m].tex \in DOMAIN tx
  BY <1>0, <1>2 DEF Apart
<1> HIDE DEF pics2
<1>5. Apart(bt, tx2, pics2)
  <2>1. ASSUME NEW l \in DOMAIN pics2, NEW m \in DOMAIN pics2, pics2[l].tex = pics2[m].tex
        PROVE  l = m
    BY <1>0, <1>1, <1>2, <1>4, <2>1 DEF Apart
  <2>2. \A l \in DOMAIN bt, m \in DOMAIN pics2 : bt[l] # pics2[m].tex
    BY <1>0, <1>1, <1>2, <1>3 DEF Apart
  <2>3. \A m \in DOMAIN pics2 : pics2[m].tex \in DOMAIN tx2
    BY <1>0, <1>1, <1>4
  <2> QED
    BY <1>0, <1>2, <1>3, <2>1, <2>2, <2>3 DEF Apart
<1>6. ASSUME NEW m \in DOMAIN stages, NEW i \in DOMAIN list, list[i].name = m,
             list[i].revision = stages[m].revision
      PROVE  tx2[bt[m]] = list[i].plot
  BY <1>0, <1>2, <1>3, <1>6 DEF TexturesHold
<1>7. ASSUME NEW m \in DOMAIN pics2, NEW i \in DOMAIN list, list[i].name = m,
             list[i].revision = pics2[m].revision, ~pics2[m].failed
      PROVE  tx2[pics2[m].tex] = list[i].plot
  <2>1. CASE m = n
    BY <1>0, <1>1, <1>7, <2>1
  <2>2. CASE m # n
    <3>1. m \in DOMAIN entries /\ pics2[m] = entries[m]
      BY <1>0, <1>1, <2>2
    <3> QED
      BY <1>0, <1>4, <1>7, <2>2, <3>1 DEF TexturesHold
  <2> QED
    BY <2>1, <2>2
<1> QED
  BY <1>0, <1>2, <1>5, <1>6, <1>7 DEF TexturesHold, pics2

\* Evicting thumbnails deletes their textures and no other
\* (ThumbnailCache::evict_missing()).
LEMMA TexturesEvicted ==
    ASSUME NEW stages, NEW bt, NEW tx, NEW pics, NEW list,
           TexturesHold(stages, bt, tx, pics, list), NEW stay
    PROVE  TexturesHold(stages, bt,
                        glDeleteTextures(tx, {pics[n].tex : n \in DOMAIN pics \ stay}),
                        Restrict(pics, DOMAIN pics \cap stay), list)
<1> DEFINE pics2 == Restrict(pics, DOMAIN pics \cap stay)
           gone == {pics[n].tex : n \in DOMAIN pics \ stay}
           tx2 == glDeleteTextures(tx, gone)
<1>1. DOMAIN pics2 = DOMAIN pics \cap stay /\ \A n \in DOMAIN pics2 : pics2[n] = pics[n]
  BY DEF Restrict
<1>2. DOMAIN tx2 = DOMAIN tx \ gone /\ \A g \in DOMAIN tx2 : tx2[g] = tx[g]
  BY DEF Restrict, glDeleteTextures
<1>3. Apart(bt, tx, pics) /\ DOMAIN bt = DOMAIN stages
  BY DEF TexturesHold
<1>4. \A n \in DOMAIN bt : bt[n] \in DOMAIN tx2
  BY <1>2, <1>3 DEF Apart
<1>5. \A n \in DOMAIN pics2 : pics2[n].tex \in DOMAIN tx2
  BY <1>1, <1>2, <1>3 DEF Apart
<1> HIDE DEF pics2, tx2
<1>6. Apart(bt, tx2, pics2)
  BY <1>1, <1>3, <1>4, <1>5 DEF Apart
<1>7. TexturesHold(stages, bt, tx2, pics2, list)
  BY <1>1, <1>2, <1>3, <1>4, <1>5, <1>6 DEF TexturesHold
<1> QED
  BY <1>7 DEF pics2, tx2
-----------------------------------------------------------------------------
\* The parts of the invariant, of what an action may leave alone.
StagesHold(stages, list, rev) ==
    \A n \in DOMAIN stages : StageHolds(stages[n], n, list, rev)
PicturesHold(pics, rev) == \A n \in DOMAIN pics : PictureHolds(pics[n], rev)
OnRecord(plotted, list) == plotted \subseteq {list[i].plot : i \in DOMAIN list}
StillHold == ~shader_failed' => TexturesHold(by_name', buff_tex', textures', entries', storage')

\* A synced Stage holds, and its bytes are on record.
LEMMA SyncedStages ==
    ASSUME Inv, NEW f
    PROVE  /\ StagesHold(Synced(f), storage, next_slot_rev)
           /\ \A shown : OnRecord(ReadsStage(Synced(f), shown), storage)
<1>1. StagesHold(Synced(f), storage, next_slot_rev)
  BY SyncedHolds DEF StagesHold
<1>2. ASSUME NEW shown
      PROVE  OnRecord(ReadsStage(Synced(f), shown), storage)
  BY SyncedSpan DEF ReadsStage, OnRecord
<1> QED
  BY <1>1, <1>2

\* When no shader has failed by the end of a step that calls sync(), the names
\* and textures are those of a sync() without a failed update.
LEMMA SyncDone ==
    ASSUME Inv, NEW f, NEW issued \in Issues(f), NEW relaid, NEW k,
           sync(Synced(f), issued), Fail(f, relaid, k), ~shader_failed'
    PROVE  /\ ~relaid
           /\ TexturesHold(Synced(f), buff_tex', setup_gl_buffer(issued), entries, storage)
           /\ \A n \in DOMAIN Synced(f) :
                 setup_gl_buffer(issued)[buff_tex'[n]] = Record(n).plot
<1>1. ~shader_failed /\ ~relaid /\ f \cap DOMAIN by_name = {}
  BY DEF Fail
<1>2. buff_tex' = NamesAfter(f, issued)
  BY DEF sync, NamesAfter
<1> QED
  BY <1>1, <1>2, SyncedTextures

\* A Stage that is replaced by one that holds leaves the others as they are.
LEMMA StageReplaced ==
    ASSUME NEW stages, NEW list, NEW rev, StagesHold(stages, list, rev), NEW n, NEW s,
           n \in DOMAIN stages => StageHolds(s, n, list, rev)
    PROVE  StagesHold([stages EXCEPT ![n] = s], list, rev)
BY DEF StagesHold

\* A list that changes but for what counts as older keeps every Stage, thumbnail
\* and texture as good as it was.
LEMMA ListChanges ==
    ASSUME Inv, Listed(storage', next_slot_rev'),
           Derived(storage, next_slot_rev, storage', next_slot_rev'),
           plots' \in Nat, selected' \in Nat \ {0}, row' \in Nat \ {0}, used' = {},
           UNCHANGED <<by_name, buff_tex, shader_failed, textures, entries>>
    PROVE  Inv' /\ SpanLive'
<1>1. next_slot_rev' \in Nat
  BY DEF Derived
<1>2. \A m \in DOMAIN by_name : StageHolds(by_name[m], m, storage', next_slot_rev')
  BY CarriedOver DEF Inv
<1>3. \A m \in DOMAIN entries : PictureHolds(entries[m], next_slot_rev')
  BY CarriedOver DEF Inv
<1>4. ASSUME ~shader_failed
      PROVE  TexturesHold(by_name, buff_tex, textures, entries, storage')
  <2>1. TexturesHold(by_name, buff_tex, textures, entries, storage)
    BY <1>4 DEF Inv
  <2>2. /\ \A n \in DOMAIN by_name : by_name[n].revision < next_slot_rev
        /\ \A n \in DOMAIN entries : entries[n].revision < next_slot_rev
    BY DEF Inv, StageHolds, PictureHolds
  <2> QED
    BY <2>1, <2>2, TexturesCarriedOver
<1> QED
  BY <1>1, <1>2, <1>3, <1>4 DEF Inv, SpanLive

\* A record that joins the list.
LEMMA ListGrows ==
    ASSUME Inv, NEW n \in Names, NEW c \in Channels, upsert(n, c), used' = {},
           UNCHANGED <<by_name, buff_tex, shader_failed, textures, entries, selected, row>>
    PROVE  Inv' /\ SpanLive'
<1>1. /\ plots' \in Nat /\ Listed(storage', next_slot_rev')
      /\ Derived(storage, next_slot_rev, storage', next_slot_rev')
  BY Upserted
<1>2. selected' \in Nat \ {0} /\ row' \in Nat \ {0}
  BY DEF Inv
<1> QED
  BY <1>1, <1>2, ListChanges

\* A step that leaves the model alone.
LEMMA ListStays ==
    ASSUME Inv, UNCHANGED <<storage, next_slot_rev, plots>>,
           selected' \in Nat \ {0}, row' \in Nat \ {0},
           StagesHold(by_name', storage, next_slot_rev),
           PicturesHold(entries', next_slot_rev), StillHold,
           OnRecord(used', storage)
    PROVE  Inv' /\ SpanLive'
BY DEF Inv, SpanLive, StagesHold, PicturesHold, OnRecord, StillHold

\* Nothing read is on record.
LEMMA NothingRead == \A list : OnRecord({}, list)
BY DEF OnRecord

\* What the parts of the invariant say of the present state.
LEMMA Parts ==
    ASSUME Inv
    PROVE  /\ row \in Nat \ {0} /\ selected \in Nat \ {0} /\ next_slot_rev \in Nat
           /\ plots \in Nat /\ storage \in Seq(Slot) /\ DOMAIN storage \subseteq Nat \ {0}
           /\ StagesHold(by_name, storage, next_slot_rev)
           /\ PicturesHold(entries, next_slot_rev) /\ OnRecord({}, storage)
<1>1. storage \in Seq(Slot)
  BY DEF Inv, Listed
<1>2. DOMAIN storage \subseteq Nat \ {0}
  BY <1>1
<1> QED
  BY <1>1, <1>2, NothingRead DEF Inv, StagesHold, PicturesHold

\* A step that leaves everything but place and selection alone.
LEMMA AllStays ==
    ASSUME Inv, UNCHANGED <<storage, next_slot_rev, plots>>,
           UNCHANGED <<by_name, buff_tex, shader_failed, textures, entries>>,
           selected' \in Nat \ {0}, row' \in Nat \ {0}, used' = {}
    PROVE  Inv' /\ SpanLive'
<1>1. StillHold
  BY DEF Inv, StillHold
<1> QED
  BY <1>1, Parts, ListStays

\* The panels that only look Stages up and read through them.
LEMMA StagesShown ==
    ASSUME Inv, NEW shown, Show(shown),
           UNCHANGED <<storage, next_slot_rev, plots, entries, row, selected>>
    PROVE  Inv' /\ SpanLive'
<1>1. PICK f \in Failing : \E issued \in Issues(f) :
        LET st == Synced(f) IN
        /\ by_name' = st /\ sync(st, issued) /\ textures' = setup_gl_buffer(issued)
        /\ used' = ReadsStage(st, shown)
        /\ Fail(f, FALSE, Cardinality(f))
  BY DEF Show
<1>2. PICK issued \in Issues(f) :
        /\ by_name' = Synced(f) /\ sync(Synced(f), issued)
        /\ textures' = setup_gl_buffer(issued)
        /\ used' = ReadsStage(Synced(f), shown)
        /\ Fail(f, FALSE, Cardinality(f))
  BY <1>1
<1>3. StagesHold(by_name', storage, next_slot_rev) /\ OnRecord(used', storage)
  BY <1>2, SyncedStages
<1>4. StillHold
  BY <1>2, SyncDone DEF StillHold
<1> QED
  BY <1>3, <1>4, Parts, ListStays

\* The layout of a Stage changes after a sync(): with the shader it had or a new
\* one, or with none when that does not build.
LEMMA StageRelaid ==
    ASSUME Inv, NEW f, NEW issued \in Issues(f), NEW relaid, NEW k, NEW n, NEW s,
           by_name' = [Synced(f) EXCEPT ![n] = s],
           n \in DOMAIN Synced(f) => /\ StageHolds(s, n, storage, next_slot_rev)
                                     /\ s.revision = Synced(f)[n].revision,
           sync(Synced(f), issued), textures' = setup_gl_buffer(issued), Fail(f, relaid, k),
           UNCHANGED <<storage, next_slot_rev, plots, entries, row>>,
           selected' \in Nat \ {0}, used' = {}
    PROVE  Inv' /\ SpanLive'
<1> DEFINE st == Synced(f)
<1>1. StagesHold(st, storage, next_slot_rev)
  BY SyncedStages
<1>2. ~shader_failed' => TexturesHold(st, buff_tex', textures', entries, storage)
  BY SyncDone
<1> HIDE DEF st
<1>3. by_name' = [st EXCEPT ![n] = s]
  BY DEF st
<1>4. n \in DOMAIN st => StageHolds(s, n, storage, next_slot_rev) /\ s.revision = st[n].revision
  BY DEF st
<1>5. StagesHold(by_name', storage, next_slot_rev)
  <2>1. StagesHold([st EXCEPT ![n] = s], storage, next_slot_rev)
    BY <1>1, <1>4, StageReplaced
  <2> QED
    BY <1>3, <2>1
<1>6. DOMAIN by_name' = DOMAIN st /\ \A m \in DOMAIN st : by_name'[m].revision = st[m].revision
  BY <1>3, <1>4
<1>7. StillHold
  BY <1>2, <1>6, TexturesRelaid DEF StillHold
<1> QED
  BY <1>5, <1>7, Parts, ListStays

\* A row of the list: the icon shows what the Stage holds, which is what is on
\* record, or an older picture stays that does not count as up to date.
LEMMA RowDrawn ==
    ASSUME Inv, NEW click \in BOOLEAN, draw_buffer_list_row(click)
    PROVE  Inv' /\ SpanLive'
<1>0. /\ row \in Nat \ {0} /\ selected \in Nat \ {0} /\ next_slot_rev \in Nat
      /\ storage \in Seq(Slot) /\ PicturesHold(entries, next_slot_rev) /\ OnRecord({}, storage)
  BY Parts
<1>1. row \in DOMAIN storage
  BY <1>0 DEF draw_buffer_list_row
<1> DEFINE n == storage[row].name
<1>2. PICK f \in Failing : \E issued \in Issues(f) :
        LET st == Synced(f)
            tx == setup_gl_buffer(issued)
            k == Cardinality(f) IN
        /\ by_name' = st /\ sync(st, issued)
        /\ IF UpToDate(n) \/ rendered_this_frame \/ n \notin DOMAIN st
           THEN /\ textures' = tx /\ used' = {} /\ Fail(f, FALSE, k)
                /\ UNCHANGED <<entries, rendered_this_frame>>
           ELSE /\ rendered_this_frame' = TRUE
                /\ IF n \in DOMAIN entries
                   THEN \/ Fail(f, FALSE, k) /\ RenderIcon(n, entries[n].tex, tx)
                        \/ Fail(f, FALSE, k + 1) /\ RenderFails(n, entries[n].tex, tx)
                   ELSE \E g \in glGenTextures(DOMAIN tx) :
                        \/ Fail(f, FALSE, k) /\ RenderIcon(n, g, Made(tx, g))
                        \/ Fail(f, FALSE, k + 1) /\ RenderFails(n, g, Made(tx, g))
  BY DEF draw_buffer_list_row
<1> DEFINE st == Synced(f)
           k == Cardinality(f)
           Rendered(g, tx) == \/ Fail(f, FALSE, k) /\ RenderIcon(n, g, tx)
                              \/ Fail(f, FALSE, k + 1) /\ RenderFails(n, g, tx)
<1>3. PICK issued \in Issues(f) :
        /\ by_name' = st /\ sync(st, issued)
        /\ \/ /\ textures' = setup_gl_buffer(issued) /\ used' = {} /\ Fail(f, FALSE, k)
              /\ entries' = entries
           \/ /\ n \in DOMAIN st
              /\ \/ n \in DOMAIN entries /\ Rendered(entries[n].tex, setup_gl_buffer(issued))
                 \/ /\ n \notin DOMAIN entries
                    /\ \E g \in glGenTextures(DOMAIN setup_gl_buffer(issued)) :
                          Rendered(g, Made(setup_gl_buffer(issued), g))
  BY <1>2
<1> DEFINE tx == setup_gl_buffer(issued)
<1>4. selected' \in Nat \ {0} /\ row' \in Nat \ {0} /\ UNCHANGED <<storage, next_slot_rev, plots>>
  BY <1>0 DEF draw_buffer_list_row, modelVars
<1>5. StagesHold(by_name', storage, next_slot_rev)
  BY <1>3, SyncedStages
<1>6. CASE textures' = tx /\ used' = {} /\ Fail(f, FALSE, k) /\ entries' = entries
  <2>1. StillHold
    BY <1>3, <1>4, <1>6, SyncDone DEF StillHold
  <2> QED
    BY <1>0, <1>4, <1>5, <1>6, <2>1, ListStays
<1>7. ASSUME n \in DOMAIN st, NEW g, NEW tx2, Rendered(g, tx2),
             n \in DOMAIN entries => g = entries[n].tex,
             ~shader_failed' =>
                /\ n \notin DOMAIN entries => g \notin DOMAIN tx
                /\ DOMAIN tx2 = DOMAIN tx \cup {g}
                /\ \A h \in DOMAIN tx : tx2[h] = tx[h]
      PROVE  Inv' /\ SpanLive'
  <2>1. /\ n \in Live /\ st[n].span = Record(n).plot
    BY <1>7, SyncedHolds
  <2>2. /\ Record(n) = storage[row] /\ Record(n) \in Slot /\ Record(n).revision < next_slot_rev
        /\ \A i \in DOMAIN storage : storage[i].name = n => i = row
    BY <1>1, <2>1, LiveListed, IndexOfListed
  <2>3. Record(n).revision \in Nat
    BY <2>2, SlotFields
  <2>4. ASSUME ~shader_failed'
        PROVE  /\ TexturesHold(st, buff_tex', tx, entries, storage)
               /\ DOMAIN buff_tex' = DOMAIN st /\ buff_tex'[n] \in DOMAIN tx
               /\ tx[buff_tex'[n]] = Record(n).plot
    <3>1. /\ TexturesHold(st, buff_tex', tx, entries, storage)
          /\ tx[buff_tex'[n]] = Record(n).plot
      <4>1. CASE Fail(f, FALSE, k)
        BY <1>3, <1>7, <2>4, <4>1, SyncDone
      <4>2. CASE Fail(f, FALSE, k + 1)
        BY <1>3, <1>7, <2>4, <4>2, SyncDone
      <4> QED
        BY <1>7, <4>1, <4>2
    <3> HIDE DEF st, tx
    <3> QED
      BY <1>7, <3>1 DEF TexturesHold, Apart
  <2> DEFINE pic(failed) == [revision |-> Record(n).revision, tex |-> g, failed |-> failed]
  <2>5. ASSUME NEW failed \in BOOLEAN
        PROVE  /\ PictureHolds(pic(failed), next_slot_rev) /\ pic(failed).tex = g
               /\ pic(failed).failed = failed /\ pic(failed).revision = Record(n).revision
    BY <2>2, <2>3 DEF PictureHolds
  <2>6. ASSUME NEW failed \in BOOLEAN, entries' = PutEntry(n, pic(failed))
        PROVE  PicturesHold(entries', next_slot_rev)
    <3> HIDE DEF pic, n
    <3> QED
      BY <1>0, <2>5, <2>6 DEF PutEntry, PicturesHold
  <2>7. ASSUME NEW failed \in BOOLEAN, entries' = PutEntry(n, pic(failed)),
               ~shader_failed' => /\ DOMAIN textures' = DOMAIN tx \cup {g}
                                  /\ \A h \in DOMAIN tx : h # g => textures'[h] = tx[h]
                                  /\ ~failed => textures'[g] = Record(n).plot
        PROVE  StillHold
    <3> SUFFICES ASSUME ~shader_failed'
                 PROVE  TexturesHold(st, buff_tex', textures', PutEntry(n, pic(failed)), storage)
      BY <1>3, <1>4, <2>7 DEF StillHold
    <3>1. TexturesHold(st, buff_tex', tx, entries, storage)
      BY <2>4
    <3>2. \A h \in DOMAIN tx : h # g => textures'[h] = tx[h]
      BY <2>7
    <3>3. IF n \in DOMAIN entries THEN g = entries[n].tex ELSE g \notin DOMAIN tx
      BY <1>7
    <3>4. DOMAIN textures' = DOMAIN tx \cup {g} /\ (~failed => textures'[g] = Record(n).plot)
      BY <2>7
    <3> DEFINE e == pic(failed)
    <3>5. e.tex = g /\ e.failed = failed
      BY <2>5
    <3>6. \A i \in DOMAIN storage :
             storage[i].name = n /\ storage[i].revision = e.revision /\ ~e.failed =>
                 textures'[g] = storage[i].plot
      BY <2>2, <3>4, <3>5
    <3> HIDE DEF e, st, tx, n
    <3>7. DrawnUnder(n, g, tx, textures', e, storage)
      BY <3>2, <3>3, <3>4, <3>5, <3>6 DEF DrawnUnder
    <3>8. TexturesHold(st, buff_tex', textures', PutEntry(n, e), storage)
      BY <3>1, <3>7, TexturesDrawn
    <3> QED
      BY <3>8 DEF e
  <2>8. CASE Fail(f, FALSE, k) /\ RenderIcon(n, g, tx2)
    <3>1. /\ entries' = PutEntry(n, pic(FALSE)) /\ used' = {by_name'[n].span}
          /\ \E p \in render_buffer_icon(tx2, buff_tex'[n], shader_failed') :
                textures' \in glTexImage2D(tx2, g, p)
      BY <2>8 DEF RenderIcon
    <3>2. OnRecord(used', storage)
      BY <1>1, <1>3, <2>1, <2>2, <3>1 DEF OnRecord
    <3>3. ASSUME ~shader_failed'
          PROVE  /\ DOMAIN textures' = DOMAIN tx \cup {g}
                 /\ \A h \in DOMAIN tx : h # g => textures'[h] = tx[h]
                 /\ textures'[g] = Record(n).plot
      <4> HIDE DEF tx, n
      <4>1. /\ DOMAIN tx2 = DOMAIN tx \cup {g} /\ \A h \in DOMAIN tx : tx2[h] = tx[h]
            /\ tx2[buff_tex'[n]] = Record(n).plot
        BY <1>7, <2>4, <3>3
      <4>2. render_buffer_icon(tx2, buff_tex'[n], shader_failed') \subseteq {Record(n).plot}
        BY <3>3, <4>1 DEF render_buffer_icon
      <4>3. textures' = [tx2 EXCEPT ![g] = Record(n).plot]
        BY <3>1, <4>1, <4>2 DEF glTexImage2D
      <4> QED
        BY <4>1, <4>3
    <3>4. PicturesHold(entries', next_slot_rev) /\ StillHold
      BY <2>6, <2>7, <3>1, <3>3
    <3> QED
      BY <1>4, <1>5, <3>2, <3>4, ListStays
  <2>9. CASE Fail(f, FALSE, k + 1) /\ RenderFails(n, g, tx2)
    <3>1. /\ textures' = tx2 /\ used' = {}
          /\ \/ n \in DOMAIN entries /\ entries' = entries
             \/ entries' = PutEntry(n, pic(TRUE))
      BY <2>9 DEF RenderFails
    <3>2. CASE n \in DOMAIN entries /\ entries' = entries
      <4>1. ASSUME ~shader_failed'
            PROVE  TexturesHold(st, buff_tex', tx2, entries, storage)
        <5>1. TexturesHold(st, buff_tex', tx, entries, storage)
          BY <2>4, <4>1
        <5> HIDE DEF st, tx, n
        <5>2. g \in DOMAIN tx
          BY <1>7, <3>2, <5>1 DEF TexturesHold, Apart
        <5>3. DOMAIN tx2 = DOMAIN tx /\ \A h \in DOMAIN tx : tx2[h] = tx[h]
          BY <1>7, <4>1, <5>2
        <5>4. Apart(buff_tex', tx2, entries)
          BY <5>1, <5>3 DEF TexturesHold, Apart
        <5>5. \A m \in DOMAIN st : buff_tex'[m] \in DOMAIN tx
          BY <5>1 DEF TexturesHold, Apart
        <5>6. \A m \in DOMAIN entries : entries[m].tex \in DOMAIN tx
          BY <5>1 DEF TexturesHold, Apart
        <5> QED
          BY <5>1, <5>3, <5>4, <5>5, <5>6 DEF TexturesHold
      <4>2. StillHold
        BY <1>3, <1>4, <3>1, <3>2, <4>1 DEF StillHold
      <4> QED
        BY <1>0, <1>4, <1>5, <3>1, <3>2, <4>2, ListStays
    <3>3. CASE entries' = PutEntry(n, pic(TRUE))
      <4>1. PicturesHold(entries', next_slot_rev) /\ StillHold
        BY <1>7, <2>6, <2>7, <3>1, <3>3
      <4> QED
        BY <1>0, <1>4, <1>5, <3>1, <4>1, ListStays
    <3> QED
      BY <3>1, <3>2, <3>3
  <2> QED
    BY <1>7, <2>8, <2>9
<1>8. CASE n \in DOMAIN st /\ n \in DOMAIN entries /\ Rendered(entries[n].tex, tx)
  <2>1. ASSUME ~shader_failed'
        PROVE  DOMAIN tx = DOMAIN tx \cup {entries[n].tex}
    <3>1. TexturesHold(st, buff_tex', tx, entries, storage)
      <4>1. CASE Fail(f, FALSE, k)
        BY <1>3, <2>1, <4>1, SyncDone
      <4>2. CASE Fail(f, FALSE, k + 1)
        BY <1>3, <2>1, <4>2, SyncDone
      <4> QED
        BY <1>8, <4>1, <4>2
    <3> HIDE DEF st, tx, n
    <3> QED
      BY <1>8, <3>1 DEF TexturesHold, Apart
  <2> HIDE DEF Rendered, tx, n, st
  <2> QED
    BY <1>7, <1>8, <2>1
<1>9. ASSUME n \in DOMAIN st, n \notin DOMAIN entries, NEW g \in glGenTextures(DOMAIN tx),
             Rendered(g, Made(tx, g))
      PROVE  Inv' /\ SpanLive'
  <2>1. g \notin DOMAIN tx
    BY <1>9, Unused
  <2>2. DOMAIN Made(tx, g) = DOMAIN tx \cup {g} /\ \A h \in DOMAIN tx : Made(tx, g)[h] = tx[h]
    BY DEF Made
  <2> HIDE DEF Rendered, tx, n, st
  <2> QED
    BY <1>7, <1>9, <2>1, <2>2
<1> QED
  BY <1>3, <1>6, <1>8, <1>9

\* The initial state satisfies the invariant.
LEMMA InitInv == Init => Inv /\ SpanLive
BY DEF Init, Inv, SpanLive, Listed, Empty, TexturesHold, Apart

\* Every step keeps it, and reads only what is on record.
LEMMA NextInv == Inv /\ Next => Inv' /\ SpanLive'
<1> SUFFICES ASSUME Inv, Next PROVE Inv' /\ SpanLive'
  OBVIOUS
<1>0. /\ row \in Nat \ {0} /\ selected \in Nat \ {0} /\ next_slot_rev \in Nat /\ plots \in Nat
      /\ storage \in Seq(Slot) /\ DOMAIN storage \subseteq Nat \ {0}
      /\ StagesHold(by_name, storage, next_slot_rev)
      /\ PicturesHold(entries, next_slot_rev) /\ OnRecord({}, storage)
  BY Parts
<1>1. ASSUME NEW n \in Symbols, NEW c \in Channels, PlotArrives(n, c)
      PROVE  Inv' /\ SpanLive'
  BY <1>1, ListGrows DEF PlotArrives, stageVars, listVars, Names
<1>2. ASSUME NEW n \in Files, NEW c \in Channels, OpenFile(n, c)
      PROVE  Inv' /\ SpanLive'
  BY <1>2, ListGrows DEF OpenFile, stageVars, listVars, Names
<1>3. ASSUME NEW n \in Names, NEW channel \in {Absent, All} \cup Requests,
             handle_set_view(n, channel)
      PROVE  Inv' /\ SpanLive'
  <2>1. /\ n \in Live /\ used' = {} /\ UNCHANGED <<storage, next_slot_rev, plots, entries, row>>
        /\ selected' = IndexOf(n) \/ selected' = selected
    BY <1>3 DEF handle_set_view, modelVars, listVars
  <2>2. selected' \in Nat \ {0}
    BY <1>0, <2>1, LiveListed
  <2>3. PICK f \in Failing, relaid \in BOOLEAN : \E issued \in Issues(f) :
          LET st == Synced(f)
              set == [st EXCEPT ![n] = set_channel(@, n, channel)] IN
          /\ by_name' = IF n \in DOMAIN st THEN set ELSE st
          /\ sync(st, issued) /\ textures' = setup_gl_buffer(issued)
          /\ Fail(f, relaid, Cardinality(f) + IF relaid THEN 1 ELSE 0)
    BY <1>3 DEF handle_set_view
  <2> DEFINE st == Synced(f)
             k == Cardinality(f) + IF relaid THEN 1 ELSE 0
             s == set_channel(st[n], n, channel)
  <2>4. PICK issued \in Issues(f) :
          /\ by_name' = IF n \in DOMAIN st THEN [st EXCEPT ![n] = set_channel(st[n], n, channel)] ELSE st
          /\ sync(st, issued) /\ textures' = setup_gl_buffer(issued) /\ Fail(f, relaid, k)
    BY <2>3
  <2>5. by_name' = [st EXCEPT ![n] = s]
    <3> HIDE DEF s
    <3>1. DOMAIN st = DOMAIN Synced(f) /\ st = [m \in DOMAIN st |-> st[m]]
      BY DEF Synced
    <3> HIDE DEF st
    <3> QED
      BY <2>4, <3>1 DEF s
  <2>6. n \in DOMAIN st => StageHolds(s, n, storage, next_slot_rev) /\ s.revision = st[n].revision
    <3>1. n \in DOMAIN st => StageHolds(st[n], n, storage, next_slot_rev)
      BY SyncedHolds
    <3>2. channel \in {Absent, All, 0, 1, 2}
      BY FrameAssumption, \A c \in 0..2 : c \in {0, 1, 2} DEF Absent, All
    <3> HIDE DEF st
    <3> QED
      BY <3>1, <3>2, ViewSet DEF Stays, s
  <2> HIDE DEF k, s
  <2> QED
    BY <2>1, <2>2, <2>4, <2>5, <2>6, StageRelaid
<1>4. CASE EndPoll
  <2>1. PicturesHold(entries', next_slot_rev)
    BY <1>0, <1>4 DEF EndPoll, evict_missing, PicturesHold, Restrict
  <2>2. /\ UNCHANGED <<storage, next_slot_rev, plots, by_name, buff_tex, shader_failed, row,
                       selected>>
        /\ used' = {}
        /\ entries' = Restrict(entries, DOMAIN entries \cap Live)
        /\ textures' = glDeleteTextures(textures, {entries[n].tex : n \in DOMAIN entries \ Live})
    BY <1>4 DEF EndPoll, evict_missing, modelVars, stageVars
  <2>3. StillHold
    BY <2>2, TexturesEvicted DEF StillHold, Inv
  <2> QED
    BY <1>0, <2>1, <2>2, <2>3, ListStays
<1>5. CASE EndDrain
  BY <1>0, <1>5, AllStays DEF EndDrain, modelVars, stageVars, listVars
<1>6. ASSUME NEW to \in 1..(Len(storage) + 1), BeginList(to)
      PROVE  Inv' /\ SpanLive'
  <2>1. selected' \in Nat \ {0}
    BY <1>0, <1>6 DEF BeginList
  <2> QED
    BY <1>0, <1>6, <2>1, AllStays DEF BeginList, modelVars, stageVars
<1>7. ASSUME NEW click \in BOOLEAN, draw_buffer_list_row(click)
      PROVE  Inv' /\ SpanLive'
  BY <1>7, RowDrawn
<1>8. ASSUME NEW delete \in BOOLEAN, EndList(delete)
      PROVE  Inv' /\ SpanLive'
  <2>1. CASE delete
    <3>1. /\ storage # <<>> /\ storage' = RemoveAt(storage, Selected) /\ used' = {} /\ row' = 1
          /\ UNCHANGED <<next_slot_rev, plots, by_name, buff_tex, shader_failed, textures,
                         entries, selected>>
      BY <1>8, <2>1 DEF EndList, has_selection, stageVars
    <3>2. /\ Listed(storage', next_slot_rev')
          /\ Derived(storage, next_slot_rev, storage', next_slot_rev')
      BY <3>1, Removed
    <3> QED
      BY <1>0, <3>1, <3>2, ListChanges
  <2>2. CASE ~delete
    BY <1>0, <1>8, <2>2, AllStays DEF EndList, stageVars
  <2> QED
    BY <2>1, <2>2
<1>9. ASSUME NEW format \in Formats, draw_toolbar(format)
      PROVE  Inv' /\ SpanLive'
  <2>1. /\ used' = {} /\ UNCHANGED <<storage, next_slot_rev, plots, entries, row, selected>>
    BY <1>9 DEF draw_toolbar, modelVars, listVars
  <2>2. PICK f \in Failing, relaid \in BOOLEAN : \E issued \in Issues(f) :
          LET st == Synced(f)
              set == [st EXCEPT ![SelectedName] = apply_format(@, format)] IN
          /\ by_name' = IF format = "none" THEN st ELSE set
          /\ sync(st, issued) /\ textures' = setup_gl_buffer(issued)
          /\ Fail(f, relaid, Cardinality(f) + IF relaid THEN 1 ELSE 0)
    BY <1>9 DEF draw_toolbar
  <2> DEFINE st == Synced(f)
             k == Cardinality(f) + IF relaid THEN 1 ELSE 0
             n == SelectedName
             s == apply_format(st[n], format)
  <2>3. PICK issued \in Issues(f) :
          /\ by_name' = IF format = "none" THEN st ELSE [st EXCEPT ![n] = apply_format(st[n], format)]
          /\ sync(st, issued) /\ textures' = setup_gl_buffer(issued) /\ Fail(f, relaid, k)
    BY <2>2
  <2>4. by_name' = [st EXCEPT ![n] = s]
    <3>1. st = [m \in DOMAIN st |-> st[m]]
      BY DEF Synced
    <3>2. format = "none" => s = st[n]
      BY DEF apply_format
    <3> HIDE DEF st, s
    <3>3. CASE format = "none"
      BY <2>3, <3>1, <3>2, <3>3
    <3>4. CASE format # "none"
      BY <2>3, <3>4 DEF s
    <3> QED
      BY <3>3, <3>4
  <2>5. n \in DOMAIN st => StageHolds(s, n, storage, next_slot_rev) /\ s.revision = st[n].revision
    <3>1. n \in DOMAIN st => StageHolds(st[n], n, storage, next_slot_rev)
      BY SyncedHolds
    <3> HIDE DEF st, n
    <3> QED
      BY <3>1, ViewSet DEF Stays, s
  <2> HIDE DEF k, s, n
  <2> QED
    BY <1>0, <2>1, <2>3, <2>4, <2>5, StageRelaid
<1>10. CASE draw_canvas_pane
  BY <1>10, StagesShown DEF draw_canvas_pane, modelVars, listVars
<1>11. CASE draw_status_bar
  <2>1. CASE has_selection
    BY <1>11, <2>1, StagesShown DEF draw_status_bar, modelVars, listVars
  <2>2. CASE ~has_selection
    BY <1>0, <1>11, <2>2, AllStays DEF draw_status_bar, modelVars, listVars, stageVars
  <2> QED
    BY <2>1, <2>2
<1>12. ASSUME NEW n \in Names, handle_export_requests(n)
       PROVE  Inv' /\ SpanLive'
  <2>1. CASE n \in Live
    BY <1>12, <2>1, StagesShown DEF handle_export_requests, modelVars, listVars
  <2>2. CASE n \notin Live
    BY <1>0, <1>12, <2>2, AllStays DEF handle_export_requests, modelVars, listVars, stageVars
  <2> QED
    BY <2>1, <2>2
<1>13. CASE NoExport
  BY <1>0, <1>13, AllStays DEF NoExport, modelVars, stageVars, listVars
<1> QED
  BY <1>1, <1>2, <1>3, <1>4, <1>5, <1>6, <1>7, <1>8, <1>9, <1>10, <1>11, <1>12, <1>13
     DEF Next, Frame
-----------------------------------------------------------------------------
\* Every reachable state satisfies the invariant, and every read was of bytes on
\* record.
LEMMA Invariance == Spec => [](Inv /\ SpanLive)
<1>1. Inv /\ SpanLive /\ [Next]_vars => Inv' /\ SpanLive'
  <2> SUFFICES ASSUME Inv, SpanLive PROVE [Next]_vars => Inv' /\ SpanLive'
    OBVIOUS
  <2>1. CASE Next
    BY <2>1, NextInv
  <2>2. CASE UNCHANGED vars
    BY <2>2 DEF Inv, SpanLive, Listed, StageHolds, vars, modelVars, stageVars, listVars
  <2> QED
    BY <2>1, <2>2
<1> QED
  BY <1>1, InitInv, PTL DEF Spec

\* No panel, request or export ever reads through a Stage into a record that was
\* replaced or removed, however plots, requests, deletions and failing GL calls
\* follow one another (StageManager::sync()).
THEOREM SpanAlwaysLive == Spec => []SpanLive
BY Invariance, PTL

\* Until a shader fails to rebuild, a Stage or a thumbnail that counts as up to
\* date names a texture in use with the pixels on record, also when its name was
\* deleted and plotted again and texture names went from one to another (slot
\* revisions of IpcBufferModel, StageManager::sync(), Buffer::buffer_update(),
\* ~Buffer(), ThumbnailCache::texture_for(), evict_missing()).
THEOREM UpToDateIsRight == Spec => []RevisionMeansContent
<1>1. Inv => RevisionMeansContent
  <2> SUFFICES ASSUME Inv, ~shader_failed, NEW n \in Live
               PROVE  /\ n \in DOMAIN by_name /\ by_name[n].revision = Record(n).revision
                            => Shows(buff_tex[n], n)
                      /\ UpToDate(n) /\ ~entries[n].failed => Shows(entries[n].tex, n)
    BY DEF RevisionMeansContent
  <2>1. IndexOf(n) \in DOMAIN storage /\ Record(n) = storage[IndexOf(n)] /\ Record(n).name = n
    BY LiveListed
  <2>2. TexturesHold(by_name, buff_tex, textures, entries, storage)
    BY DEF Inv
  <2> QED
    BY <2>1, <2>2 DEF TexturesHold, Apart, UpToDate, Shows
<1> QED
  BY <1>1, Invariance, PTL

\* The channel the user or an agent isolated is the one the shader samples and
\* get_view reports, through any number of replots (Buffer::configure(),
\* NativeViewModel::set_channel(), apply_format()).
THEOREM IsolationSurvives == Spec => []IsolationKept
<1>1. Inv => IsolationKept
  <2> SUFFICES ASSUME Inv, NEW n \in DOMAIN by_name,
                      by_name[n].asked < NoChannel, by_name[n].asked < by_name[n].channels
               PROVE  /\ by_name[n].mode = 1
                      /\ selected_channel_index(by_name[n].layout, by_name[n].channels)
                           = by_name[n].asked
                      /\ Program(by_name[n])[1] = 1
                      /\ Component(Program(by_name[n])[2]) = by_name[n].asked
    BY DEF IsolationKept
  <2> DEFINE a == by_name[n].asked
             c == by_name[n].channels
             lay == by_name[n].layout
  <2>1. StageHolds(by_name[n], n, storage, next_slot_rev)
    BY DEF Inv
  <2>2. /\ by_name[n].mode = 1 /\ lay = ISOLATION_LAYOUTS[a + 1] /\ a < NoChannel
        /\ a \in 0..NoChannel /\ c \in Nat /\ a < c
    BY <2>1 DEF StageHolds, StageType
  <2> HIDE DEF a, c, lay
  <2>3. Component(lay) = a
    <3>1. a \in {0, 1, 2}
      BY <2>2 DEF NoChannel
    <3>2. CASE a = 0
      BY <2>2, <3>2 DEF ISOLATION_LAYOUTS, Component
    <3>3. CASE a = 1
      BY <2>2, <3>3 DEF ISOLATION_LAYOUTS, Component
    <3>4. CASE a = 2
      BY <2>2, <3>4 DEF ISOLATION_LAYOUTS, Component
    <3> QED
      BY <3>1, <3>2, <3>3, <3>4
  <2>4. selected_channel_index(lay, c) = a
    BY <2>2, <2>3 DEF selected_channel_index
  <2>5. Component(shader_pixel_layout(lay, c)) = a
    <3>1. CASE c = 1
      <4>1. a = 0 /\ shader_pixel_layout(lay, c) = "rgba"
        BY <2>2, <3>1 DEF shader_pixel_layout
      <4> QED
        BY <4>1 DEF Component
    <3>2. CASE c # 1
      BY <2>3, <3>2 DEF shader_pixel_layout
    <3> QED
      BY <3>1, <3>2
  <2>6. /\ Program(by_name[n])[1] = 1
        /\ Program(by_name[n])[2] = shader_pixel_layout(by_name[n].layout, by_name[n].channels)
    BY <2>2 DEF Program, All
  <2> QED
    BY <2>2, <2>4, <2>5, <2>6 DEF a, c, lay
<1> QED
  BY <1>1, Invariance, PTL
=============================================================================
