------------------------------ MODULE RunStore ------------------------------
(***************************************************************************)
(* The JSON files of a repository.  An upsert (runs) or a replacement      *)
(* (step logs, artifacts) reads every part of the file, changes one run's  *)
(* records in memory and writes all parts back, one replaced file after    *)
(* the other.  A lock covers the reading and the writing, not what lies    *)
(* between; the clean-up script is another process and knows no lock.      *)
(* A record is a version of its run with a size; the split puts as many    *)
(* records into a part as PartSize allows.  MaxWrites, MaxFaults and       *)
(* MaxCleanups bound the writes, the crashes or failed writes, and the     *)
(* clean-ups.                                                              *)
(***************************************************************************)
EXTENDS Naturals, Sequences, SequencesExt, FiniteSetsExt

CONSTANTS Threads, Runs, PartSize, MaxWrites, MaxFaults, MaxCleanups

\* The clean-up script is not one of the threads.
StoreAssumption == "cleaner" \notin Threads

VARIABLES
    file,       \* the parts: runs.json, runs.json.part-001, ...
    thread,     \* a writer: idle, or about to write its parts
    cleaner,    \* the clean-up script: the runs.json it read
    confirmed,  \* history: the version of each run last reported written
    spoiled,    \* history: runs overwritten by a stale writer or torn
    stale,      \* history: what was written since a writer read the file
    writes, faults, cleanups

vars == <<file, thread, cleaner, confirmed, spoiled, stale,
          writes, faults, cleanups>>

Item(r, version, size) == [run |-> r, version |-> version, size |-> size]
Idle == [pc |-> "idle", run |-> 0, version |-> 0, parts |-> << >>, next |-> 0]
NoCleanup == [pc |-> "idle", keep |-> << >>, gone |-> {}]
Cleaner == "cleaner"
Writers == Threads \cup {Cleaner}

Stored == FlattenSeq(file)
Size(items) == FoldSeq(LAMBDA item, total : item.size + total, 0, items)

\* Mutant: the record that does not fit any more opens a part without itself.
SplitDropping(items) ==
    FoldLeft(LAMBDA parts, item :
                LET current == Last(parts) IN
                IF current # << >> /\ Size(current) + item.size > PartSize
                THEN Append(parts, << >>)
                ELSE Front(parts) \o <<Append(current, item)>>,
             << << >> >>, items)

\* _split_payload: a new part begins where the next record would exceed the
\* limit; a record that is too large has a part of its own.
Split(items) ==
    FoldLeft(LAMBDA parts, item :
                LET current == Last(parts) IN
                IF current # << >> /\ Size(current) + item.size > PartSize
                THEN Append(parts, <<item>>)
                ELSE Front(parts) \o <<Append(current, item)>>,
             << << >> >>, items)

\* RunRepository.upsert: the first record of the run is replaced.
Upserted(items, new) ==
    LET old == {i \in DOMAIN items : items[i].run = new.run} IN
    IF old = {} THEN Append(items, new) ELSE [items EXCEPT ![Min(old)] = new]

\* What is left without the records of some runs.
Without(items, gone) ==
    FoldLeft(LAMBDA kept, item : IF item.run \in gone THEN kept ELSE Append(kept, item),
             << >>, items)

\* replace_for_run of step logs and artifacts.
Replaced(items, new) == Append(Without(items, {new.run}), new)

\* RunRepository.get: the version of the first record of the run, 0 if none.
Get(r) ==
    LET first == SelectInSeq(Stored, LAMBDA item : item.run = r) IN
    IF first = 0 THEN 0 ELSE Stored[first].version

Init ==
    /\ file = << << >> >>
    /\ thread = [t \in Threads |-> Idle]
    /\ cleaner = NoCleanup
    /\ confirmed = [r \in Runs |-> 0]
    /\ spoiled = {}
    /\ stale = [w \in Writers |-> {}]
    /\ writes = 0 /\ faults = 0 /\ cleanups = 0

\* A writer between its first and its last part holds the lock.
Writing(t) == thread[t].pc = "write" /\ thread[t].next > 1
Unlocked == \A t \in Threads : ~Writing(t)

\* _load and the change of one run, in memory.
Load(t, r) ==
    /\ thread[t].pc = "idle" /\ writes < MaxWrites /\ Unlocked
    /\ writes' = writes + 1
    /\ \E size \in 1..PartSize :
        LET new == Item(r, writes', size) IN
        \E items \in {Upserted(Stored, new), Replaced(Stored, new)} :
            thread' = [thread EXCEPT ![t] =
                [pc |-> "write", run |-> r, version |-> new.version,
                 parts |-> Split(items), next |-> 1]]
    /\ stale' = [stale EXCEPT ![t] = {}]
    /\ UNCHANGED <<file, cleaner, confirmed, spoiled, faults, cleanups>>

Put(parts, i, part) == IF i > Len(parts) THEN Append(parts, part)
                       ELSE [parts EXCEPT ![i] = part]

\* One part is written beside the file and renamed over it.  With the first
\* part, whatever others wrote since this writer's read is overwritten.
WritePart(t) ==
    LET i == thread[t].next IN
    /\ thread[t].pc = "write" /\ i <= Len(thread[t].parts)
    /\ \A u \in Threads \ {t} : ~Writing(u)
    /\ file' = Put(file, i, thread[t].parts[i])
    /\ thread' = [thread EXCEPT ![t].next = i + 1]
    /\ IF i = 1
       THEN /\ spoiled' = spoiled \cup stale[t]
            /\ stale' = [w \in Writers |-> IF w = t THEN stale[w]
                                           ELSE stale[w] \cup {thread[t].run}]
       ELSE UNCHANGED <<spoiled, stale>>
    /\ UNCHANGED <<cleaner, confirmed, writes, faults, cleanups>>

\* The parts that are no longer expected are removed, and the write returns.
FinishWrite(t) ==
    LET r == thread[t].run IN
    /\ thread[t].pc = "write" /\ thread[t].next > Len(thread[t].parts)
    /\ file' = SubSeq(file, 1, Len(thread[t].parts))
    /\ thread' = [thread EXCEPT ![t] = Idle]
    /\ confirmed' = [confirmed EXCEPT ![r] = thread[t].version]
    /\ spoiled' = IF stale[t] = {} THEN spoiled \ {r} ELSE spoiled
    /\ UNCHANGED <<cleaner, stale, writes, faults, cleanups>>

\* A write ends between two of its parts: the process dies or a rename is
\* refused five times.  Records on their way from part to part are torn.
WriteFails(t) ==
    /\ thread[t].pc = "write" /\ faults < MaxFaults
    /\ faults' = faults + 1
    /\ thread' = [thread EXCEPT ![t] = Idle]
    /\ spoiled' = IF Writing(t) /\ thread[t].next <= Len(thread[t].parts)
                  THEN Runs ELSE spoiled
    /\ UNCHANGED <<file, cleaner, confirmed, stale, writes, cleanups>>

Crash ==
    /\ faults < MaxFaults
    /\ faults' = faults + 1
    /\ thread' = [t \in Threads |-> Idle]
    /\ spoiled' = IF \E t \in Threads : /\ Writing(t)
                                        /\ thread[t].next <= Len(thread[t].parts)
                  THEN Runs ELSE spoiled
    /\ UNCHANGED <<file, cleaner, confirmed, stale, writes, cleanups>>

\* cleanup_runs.py reads runs.json, not its parts, and drops old records:
\* here those of a run, or none.
CleanupRead ==
    /\ cleaner.pc = "idle" /\ cleanups < MaxCleanups
    /\ cleanups' = cleanups + 1
    /\ \E gone \in {{}} \cup {{r} : r \in Runs} :
        cleaner' = [pc |-> "write", gone |-> gone,
                    keep |-> Without(file[1], gone)]
    /\ stale' = [stale EXCEPT ![Cleaner] =
                    IF \E t \in Threads : Writing(t) THEN Runs ELSE {}]
    /\ UNCHANGED <<file, thread, confirmed, spoiled, writes, faults>>

\* It writes runs.json back.  Anything written in between may have moved any
\* record from part to part.
CleanupWrite ==
    /\ cleaner.pc = "write"
    /\ file' = [file EXCEPT ![1] = cleaner.keep]
    /\ cleaner' = NoCleanup
    /\ confirmed' = [r \in Runs |-> IF r \in cleaner.gone THEN 0 ELSE confirmed[r]]
    /\ spoiled' = IF stale[Cleaner] # {} \/ \E t \in Threads : Writing(t)
                  THEN Runs ELSE spoiled
    /\ stale' = [w \in Writers |-> IF w = Cleaner THEN {} ELSE Runs]
    /\ UNCHANGED <<thread, writes, faults, cleanups>>

Next ==
    \/ \E t \in Threads, r \in Runs : Load(t, r)
    \/ \E t \in Threads : WritePart(t)
    \/ \E t \in Threads : FinishWrite(t)
    \/ \E t \in Threads : WriteFails(t)
    \/ Crash
    \/ CleanupRead
    \/ CleanupWrite

Spec == Init /\ [][Next]_vars

-----------------------------------------------------------------------------
\* A record that was reported written is there, in that or a later version,
\* unless a writer that had read the file before overwrote it or a write was
\* cut off between two parts: splitting, merging and removing parts loses
\* nothing.
LostOnlyByRaceOrTear ==
    Unlocked => \A r \in Runs \ spoiled : Get(r) >= confirmed[r]
=============================================================================
