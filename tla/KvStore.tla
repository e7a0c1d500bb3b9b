------------------------------ MODULE KvStore ------------------------------
(***************************************************************************)
(* The double-buffered EEPROM record store of crates/tower-kv, word by     *)
(* word, as src/storage.rs drives it.                                      *)
(*                                                                         *)
(* The EEPROM is two halves of Half words.  A record of key k and value v  *)
(* is Size(v) consecutive words <<k, v, 0>>, <<k, v, 1>>, ...: its CRC     *)
(* makes a record valid exactly when all of its words are there, so the    *)
(* model compares words instead of computing CRCs.  The superblock of a    *)
(* half is one word at the top of the region, holding a generation number. *)
(* A value of length zero is a delete tombstone: here, the value Absent.   *)
(*                                                                         *)
(* Every operation is synchronous and runs under one mutex, so no other    *)
(* task sees it half done; a power loss does.  An operation is the         *)
(* sequence of word programs it issues, and the loss cuts that sequence    *)
(* anywhere, possibly leaving junk in the word in flight.                  *)
(***************************************************************************)
EXTENDS Integers, Sequences, FiniteSets, SequencesExt

CONSTANTS
  Keys, Values, Absent,
  WordsOf,    (* length of a value, in words                              *)
  Header,     (* length of a record header, in words                      *)
  Half,       (* length of one half, in words                             *)
  Budget,     (* MAINT_BUDGET_WORDS                                       *)
  Threshold,  (* FLIP_THRESHOLD, in words                                 *)
  TornWipe,   (* whether a power loss may cut a factory reset             *)
  MaxGen,     (* model bound on generations, hence on compactions         *)
  Blank, Junk, None

ASSUME KvConstants ==
  /\ Absent \notin Values
  /\ WordsOf \in [Values -> Nat \ {0}]
  /\ {Header, Half, Budget, MaxGen} \subseteq Nat \ {0}
  /\ Threshold \in Nat
  /\ TornWipe \in BOOLEAN
  /\ \A v \in Values : Header + WordsOf[v] <= Half

VARIABLES
  nvm,    (* the EEPROM, a word per address                               *)
  maint,  (* MaintState, in RAM: pre-blank cursor and pending flip        *)
  reads,  (* history: what get_bytes returns for each key                 *)
  last    (* history: the last call and its outcome                       *)

vars == <<nvm, maint, reads, last>>

Halves == {0, 1}
Base(h) == h * Half
SuperOff(h) == 2 * Half + h
Region == 0..2 * Half + 1
Data == Values \cup {Absent}

(* Blank and Junk are what no word of a record and no generation looks     *)
(* like, and None is no pending flip.                                      *)
ASSUME KvNames ==
  /\ Blank # Junk
  /\ \A w \in {Blank, Junk} : w \notin Nat /\ w \notin Keys \X Data \X Nat
  /\ None \notin [half : Halves, gen : Nat, end : Nat, plan : SUBSET Nat,
                  blankOff : Nat, copied : Nat]

Size(v) == Header + (IF v = Absent THEN 0 ELSE WordsOf[v])

Min2(a, b) == IF a < b THEN a ELSE b

-----------------------------------------------------------------------------
(* Word programs. *)

Write(a, w) == [addr |-> a, word |-> w]

(* The memory after the first n of the writes ws. *)
Programmed(m, ws, n) ==
  LET after[i \in 0..n] ==
        IF i = 0 THEN m ELSE [after[i - 1] EXCEPT ![ws[i].addr] = ws[i].word]
  IN  after[n]

Program(m, ws) == Programmed(m, ws, Len(ws))

(* What a power loss inside the writes ws leaves: a proper prefix of them, *)
(* and the next word old or garbled.                                       *)
Torn(m, ws) ==
  LET before(n) == Programmed(m, ws, n - 1)
  IN  UNION {{before(n), [before(n) EXCEPT ![ws[n].addr] = Junk]} : n \in DOMAIN ws}

WordsAt(a, words) == [i \in 1..Len(words) |-> Write(a + i - 1, words[i])]

RecordWords(k, v) == [i \in 1..Size(v) |-> <<k, v, i - 1>>]

(* The superblock is invalid while it is being rewritten. *)
Commit(h, g) == <<Write(SuperOff(h), Junk), Write(SuperOff(h), g)>>

-----------------------------------------------------------------------------
(* Reading the store. *)

(* A half without a valid superblock has generation 0. *)
GenOf(m, h) == IF m[SuperOff(h)] \in {Blank, Junk} THEN 0 ELSE m[SuperOff(h)]

Initialised(m) == \E h \in Halves : GenOf(m, h) # 0

ActiveHalf(m) == IF GenOf(m, 0) >= GenOf(m, 1) THEN 0 ELSE 1
ActiveGen(m) == GenOf(m, ActiveHalf(m))

(* An intact record starts at offset o of the half. *)
IsRecord(m, h, o) ==
  /\ o < Half
  /\ LET w == m[Base(h) + o]
     IN  /\ w \notin {Blank, Junk}
         /\ w[3] = 0
         /\ o + Size(w[2]) <= Half
         /\ \A i \in 1..Size(w[2]) - 1 : m[Base(h) + o + i] = [w EXCEPT ![3] = i]

(* The records of a half, up to the first offset that starts none. *)
Log(m, h) ==
  LET from[o \in 0..Half] ==
        IF IsRecord(m, h, o)
          THEN LET w == m[Base(h) + o]
               IN  <<[off |-> o, key |-> w[1], val |-> w[2]]>> \o from[o + Size(w[2])]
          ELSE <<>>
  IN  from[0]

LogEnd(log) == IF log = <<>> THEN 0 ELSE Last(log).off + Size(Last(log).val)

IsLatest(log, i) == \A j \in i + 1..Len(log) : log[j].key # log[i].key

(* The value of the last record of key k. *)
Found(log, k) ==
  LET of == {i \in DOMAIN log : log[i].key = k}
  IN  IF of = {} THEN Absent ELSE log[Max(of)].val

(* What key k reads, by one scan of the active half. *)
Get(m, k) == IF Initialised(m) THEN Found(Log(m, ActiveHalf(m)), k) ELSE Absent

(* The room left in the half that the store starts in. *)
FreeInFirst(m) == Half - LogEnd(Log(m, 0))

FreeWords(m) == Half - LogEnd(Log(m, ActiveHalf(m)))

(* The words of some records of a log, packed. *)
RecordsWords(log, some) ==
  FlattenSeq([i \in DOMAIN log |->
                IF log[i] \in some THEN RecordWords(log[i].key, log[i].val) ELSE <<>>])

(* A tombstone of the plan is dropped. *)
PackedWords(log, plan) ==
  RecordsWords(log, {r \in ToSet(log) : r.off \in plan /\ r.val # Absent})

LatestOffsets(log) == {log[i].off : i \in {j \in DOMAIN log : IsLatest(log, j)}}

LiveWords(m) == LET log == Log(m, ActiveHalf(m)) IN Len(PackedWords(log, LatestOffsets(log)))

(* The offsets blank_step_span programs, in order. *)
Dirty(m, h, from) ==
  FlattenSeq([i \in 1..Half - from |->
                LET o == from + i - 1 IN IF m[Base(h) + o] # Blank THEN <<o>> ELSE <<>>])

(* Where the blanking of these offsets resumes after the first n of them,  *)
(* passing over the next one.                                              *)
BlankReachPast(offs, n) == IF n = Len(offs) THEN Half ELSE offs[n + 1] + 1

BlankReach(offs, n) == IF n = Len(offs) THEN Half ELSE offs[n + 1]

BlankWrites(h, offs) == [i \in 1..Len(offs) |-> Write(Base(h) + offs[i], Blank)]

-----------------------------------------------------------------------------
(* The compaction flip: blank the other half, copy the latest records into *)
(* it, commit with one superblock write.  `copied` counts the words of the *)
(* packed live set already copied (read_off, write_off, rec_copied).       *)

FlipStart(m) ==
  LET log == Log(m, ActiveHalf(m))
  IN  [half |-> ActiveHalf(m), gen |-> ActiveGen(m), end |-> LogEnd(log),
       plan |-> LatestOffsets(log), blankOff |-> 0, copied |-> 0]

Fresh(m, st) == st # None /\ st.half = ActiveHalf(m) /\ st.gen = ActiveGen(m)

(* A step that skips the blanking, for the blank-before-copy order. *)
StepWithoutBlanking(m, st, budget) ==
  LET stream == PackedWords(Log(m, st.half), st.plan)
      n == Min2(budget, Len(stream) - st.copied)
  IN  [st   |-> [st EXCEPT !.blankOff = Half, !.copied = @ + n],
       ws   |-> WordsAt(Base(1 - st.half) + st.copied, SubSeq(stream, st.copied + 1, st.copied + n)),
       more |-> st.copied + n < Len(stream)]

FlipStep(m, st, budget) ==
  LET dst     == 1 - st.half
      dirty   == Dirty(m, dst, st.blankOff)
      b       == Min2(budget, Len(dirty))
      blanked == b = Len(dirty)
      stream  == PackedWords(Log(m, st.half), st.plan)
      n       == IF blanked THEN Min2(budget - b, Len(stream) - st.copied) ELSE 0
  IN  [st   |-> [st EXCEPT !.blankOff = BlankReach(dirty, b),
                           !.copied = @ + n],
       ws   |-> BlankWrites(dst, SubSeq(dirty, 1, b))
                  \o WordsAt(Base(dst) + st.copied, SubSeq(stream, st.copied + 1, st.copied + n)),
       more |-> ~blanked \/ st.copied + n < Len(stream)]

(* Commit that forgets the records appended since FlipStart. *)
CommitWithoutTail(m, st) ==
  FlipStep(m, st, 3 * Half).ws \o Commit(1 - st.half, st.gen + 1)

(* The remaining steps, the tail of records appended since FlipStart as    *)
(* they stand, and the superblock.  A synchronous flip is the commit of a  *)
(* plan made on the spot.                                                  *)
FlipCommit(m, st) ==
  LET log   == Log(m, st.half)
      tail  == {r \in ToSet(log) : r.off >= st.end}
  IN  FlipStep(m, st, 3 * Half).ws
        \o WordsAt(Base(1 - st.half) + Len(PackedWords(log, st.plan)), RecordsWords(log, tail))
        \o Commit(1 - st.half, st.gen + 1)

(* A pending flip that is still fresh is finished, otherwise a new one is  *)
(* made and committed.                                                     *)
Compaction(m, st) == FlipCommit(m, IF Fresh(m, st) THEN st ELSE FlipStart(m))

-----------------------------------------------------------------------------
(* The operations, each as its writes, the RAM state it leaves and its     *)
(* outcome.                                                                *)

FreshMaint == [cursor |-> [gen |-> 0, off |-> 0], flip |-> None]

OpenWrites(m) == IF Initialised(m) THEN <<>> ELSE Commit(0, 1)

AppendWrites(m, k, v) ==
  WordsAt(Base(ActiveHalf(m)) + LogEnd(Log(m, ActiveHalf(m))), RecordWords(k, v))

SetOp(k, v) ==
  LET open  == OpenWrites(nvm)
      m0    == Program(nvm, open)
      flip  == Compaction(m0, maint.flip)
      m1    == Program(m0, flip)
  IN  IF Size(v) <= FreeWords(m0)
        THEN [ws |-> open \o AppendWrites(m0, k, v), flip |-> maint.flip, out |-> "ok"]
        ELSE IF Size(v) <= FreeWords(m1)
               THEN [ws |-> open \o flip \o AppendWrites(m1, k, v), flip |-> None, out |-> "ok"]
               ELSE [ws |-> open \o flip, flip |-> None, out |-> "full"]

(* Deleting a key that reads absent writes nothing. *)
PutOp(k, v) ==
  IF v = Absent /\ Get(nvm, k) = Absent
    THEN [ws |-> <<>>, flip |-> maint.flip, out |-> "ok"]
    ELSE SetOp(k, v)

(* Model bound: no operation below starts once the store is at generation  *)
(* MaxGen.                                                                 *)
InBound == ActiveGen(nvm) < MaxGen

Becomes(m) == nvm' = m /\ reads' = [k \in Keys |-> Get(m, k)]

(* set_bytes for a value, delete for Absent. *)
Put(k, v) ==
  LET r == PutOp(k, v)
  IN  /\ InBound
      /\ Becomes(Program(nvm, r.ws))
      /\ maint' = [maint EXCEPT !.flip = r.flip]
      /\ last' = [key |-> k, val |-> v, out |-> r.out]

TearPut(k, v) ==
  /\ InBound
  /\ \E m \in Torn(nvm, PutOp(k, v).ws) : Becomes(m)
  /\ maint' = FreshMaint
  /\ last' = [key |-> k, val |-> v, out |-> "torn"]

Idle == [key |-> Absent, val |-> Absent, out |-> "idle"]

Compact ==
  /\ Initialised(nvm) /\ InBound
  /\ Becomes(Program(nvm, Compaction(nvm, maint.flip)))
  /\ maint' = [maint EXCEPT !.flip = None]
  /\ last' = Idle

(* One maintenance slice: what it writes, the state it leaves, and whether *)
(* work remains.                                                           *)
DriveFlip(m, mt) ==
  LET step == FlipStep(m, mt.flip, Budget)
  IN  IF step.more
        THEN [ws |-> step.ws, maint |-> [mt EXCEPT !.flip = step.st], more |-> TRUE]
        ELSE [ws |-> FlipCommit(m, mt.flip), maint |-> [mt EXCEPT !.flip = None], more |-> TRUE]

BlankFrom(m, off) ==
  LET dead  == 1 - ActiveHalf(m)
      dirty == Dirty(m, dead, off)
      b     == Min2(Budget, Len(dirty))
      reach == BlankReach(dirty, b)
  IN  [ws |-> BlankWrites(dead, SubSeq(dirty, 1, b)),
       maint |-> [cursor |-> [gen |-> ActiveGen(m), off |-> reach], flip |-> None],
       more |-> reach < Half]

(* Blanking that believes the cursor of another generation. *)
BlankOn(m, cursor) == BlankFrom(m, cursor.off)

BlankDead(m, cursor) == BlankFrom(m, IF cursor.gen = ActiveGen(m) THEN cursor.off ELSE 0)

(* The other half is blank: the blank pass of the next flip costs nothing. *)
DeadHalfBlank(m) ==
  Initialised(m) => \A o \in 0..Half - 1 : m[Base(1 - ActiveHalf(m)) + o] = Blank

(* A flip starts below the threshold, and only if it restores headroom. *)
FlipDueAlways(m) == FreeWords(m) < Threshold

FlipDue(m) == FreeWords(m) < Threshold /\ LiveWords(m) + Threshold <= Half

MaintainOp(m, mt) ==
  IF Fresh(m, mt.flip) THEN DriveFlip(m, mt)
  ELSE IF FlipDue(m)
    THEN [ws |-> <<>>, maint |-> [mt EXCEPT !.flip = FlipStart(m)], more |-> TRUE]
    ELSE BlankDead(m, mt.cursor)

Maintain ==
  /\ Initialised(nvm) /\ InBound
  /\ LET op == MaintainOp(nvm, maint)
     IN  Becomes(Program(nvm, op.ws)) /\ maint' = op.maint
  /\ last' = Idle

(* Kv::new: the boot's init writes the first superblock. *)
Open ==
  /\ ~Initialised(nvm)
  /\ Becomes(Program(nvm, OpenWrites(nvm)))
  /\ maint' = FreshMaint
  /\ last' = Idle

(* A power loss that cuts an operation no caller is told about, or none.   *)
PowerLoss ==
  /\ InBound
  /\ \E m \in {nvm} \cup Torn(nvm, OpenWrites(nvm))
                \cup (IF Initialised(nvm)
                        THEN Torn(nvm, Compaction(nvm, maint.flip)) \cup Torn(nvm, MaintainOp(nvm, maint).ws)
                        ELSE {}) : Becomes(m)
  /\ maint' = FreshMaint
  /\ last' = Idle

(* Kv::wipe zeroes the region from the bottom: both halves, then both      *)
(* superblocks.                                                            *)
WipeWrites ==
  LET offs == [i \in 1..Half |-> i - 1]
  IN  BlankWrites(0, offs) \o BlankWrites(1, offs)
        \o <<Write(SuperOff(0), Blank), Write(SuperOff(1), Blank)>>

Wipe ==
  /\ \E m \in {Program(nvm, WipeWrites)}
                \cup (IF TornWipe THEN Torn(nvm, WipeWrites) ELSE {}) : Becomes(m)
  /\ maint' = FreshMaint
  /\ last' = [Idle EXCEPT !.out = "wiped"]

-----------------------------------------------------------------------------

Init ==
  /\ nvm = [a \in Region |-> Blank]
  /\ maint = FreshMaint
  /\ reads = [k \in Keys |-> Absent]
  /\ last = Idle

Next ==
  \/ \E k \in Keys, v \in Data : Put(k, v) \/ TearPut(k, v)
  \/ Compact
  \/ Maintain
  \/ Open
  \/ PowerLoss
  \/ Wipe

Spec == Init /\ [][Next]_vars

-----------------------------------------------------------------------------
(* Properties. *)

(* The type invariant. *)
TypeOK ==
  /\ \A a \in 0..2 * Half - 1 : nvm[a] \in {Blank, Junk} \cup (Keys \X Data \X (0..Half))
  /\ \A h \in Halves : nvm[SuperOff(h)] \in {Blank, Junk} \cup (1..MaxGen)
  /\ maint.cursor \in [gen : 0..MaxGen, off : 0..Half]
  /\ maint.flip # None =>
       maint.flip \in [half : Halves, gen : 1..MaxGen, end : 0..Half,
                       plan : SUBSET (0..Half), blankOff : 0..Half, copied : 0..Half]
  /\ last \in [key : Keys \cup {Absent}, val : Data,
               out : {"idle", "ok", "full", "torn", "wiped"}]
  /\ reads \in [Keys -> Data]

(* Whatever compaction, maintenance, deletes and power losses do, every    *)
(* key reads what the calls on the store say it should (get_bytes).        *)
Store == INSTANCE KvMap WITH map <- reads
ImplementsMap == Store!Spec

(* No complete record lies beyond the end of the active log, where the     *)
(* next append would make the scan run on into it.                         *)
NoBuriedRecord ==
  LET h == ActiveHalf(nvm)
  IN  \A o \in LogEnd(Log(nvm, h))..Half - 1 : ~IsRecord(nvm, h, o)

(* While an incremental flip is pending, the destination half holds the    *)
(* copied part of the live set and nothing else that a scan could reach:   *)
(* what flip_commit is about to commit without looking at it again.        *)
PlannedCopyIntact ==
  Fresh(nvm, maint.flip) =>
    LET st == maint.flip
        dst == 1 - st.half
        stream == PackedWords(Log(nvm, st.half), st.plan)
    IN  /\ st.copied > 0 => st.blankOff = Half
        /\ \A o \in 0..st.blankOff - 1 :
             nvm[Base(dst) + o] = IF o < st.copied THEN stream[o + 1] ELSE Blank

(* A set is refused only when the live set leaves no room for the record.  *)
(* A flip that was pending may break this: its tail may carry garbage.     *)
FullOnlyWhenFull ==
  last.out = "full" => LiveWords(nvm) + Size(last.val) > Half

(* A set that finishes no pending flip is refused only when what the       *)
(* store holds leaves no room for the record, however much garbage the log *)
(* had: the compaction it makes on the spot leaves none (set_bytes_with).  *)
RefusedOnlyWhenFull ==
  [][last'.out = "full" /\ ~Fresh(nvm, maint.flip)
       => LiveWords(nvm) + Size(last'.val) > Half]_vars

(* Left alone, the maintenance task runs out of work, whatever a power     *)
(* loss or the callers left: it does not flip for ever, SettleSlices       *)
(* slices are enough, and then the next flip has only to copy, though the  *)
(* halves have changed places under the cursor of the blanking (maintain,  *)
(* blank_dead_step).  The worst case is a flip that is pending and a      *)
(* record behind it (its tail may leave garbage), a second flip, and the   *)
(* blanking of the half it leaves: each flip blanks and copies at most     *)
(* 2 * Half words, and starting, committing and finding nothing left to    *)
(* blank cost a slice each.                                                *)
SettleSlices == 2 * ((2 * Half) \div Budget) + Half \div Budget + 4

MaintenanceSettles ==
  LET after[n \in 0..SettleSlices] ==
        IF n = 0 THEN [mem |-> nvm, maint |-> maint, more |-> Initialised(nvm)]
        ELSE LET s  == after[n - 1]
                 op == MaintainOp(s.mem, s.maint)
             IN  IF s.more
                   THEN [mem |-> Program(s.mem, op.ws), maint |-> op.maint, more |-> op.more]
                   ELSE s
      rest == after[SettleSlices]
  IN  ~rest.more /\ DeadHalfBlank(rest.mem)
=============================================================================
