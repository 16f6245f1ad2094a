------------------------------- MODULE FileFlow -------------------------------
(***************************************************************************)
(* CFileFlow, the persisted flow: files of Gap records each, one thread    *)
(* that appends under the write lock, and readers under the read lock that *)
(* share what Get remembers of the last read, and the position of each     *)
(* open file.  The process may be killed or exit at any time and start     *)
(* again; the readers (clients of fronts) come back and go on.             *)
(*                                                                         *)
(* A file is the sequence of its records, an offset the number of records  *)
(* before it.                                                              *)
(***************************************************************************)
EXTENDS Integers, Sequences, FiniteSets, SequencesExt

CONSTANTS
  Reader, Message,
  Torn,          (* the record whose length was written and not its body   *)
  Garbage,       (* what is read where no record begins                    *)
  Gap,           (* m_nLongFileFlowGap                                     *)
  MaxRecords,    (* bound: length of the flow                              *)
  MaxCrashes     (* bound: exits of the process                            *)

ASSUME FileBounds ==
  /\ Gap \in Nat \ {0} /\ MaxRecords \in Nat /\ MaxCrashes \in Nat
  /\ Torn \notin Message /\ Garbage \notin Message

VARIABLES
  file,         (* the records of each file                                *)
  total,        (* m_nCount                                                *)
  open,         (* indexes of the files that are open                      *)
  pos,          (* position of each open file                              *)
  readId, readIndex, readOffset,   (* the last read                        *)
  adding,       (* the message of the Append under way, or Garbage         *)
  rpc,          (* rpc[r]: where reader r is in Get                        *)
  offset, got,  (* locals of Get                                           *)
  next, last,   (* next[r]: id r asks for next; last[r]: what it was given *)
  crashes,
  overlapped,   (* history: two readers have been inside Get at once       *)
  torn          (* history: a record was torn                              *)

cursor == <<readId, readIndex, readOffset>>
locals == <<rpc, offset, got>>
reading == <<next, last>>
fileVars == <<file, total, open, pos, cursor, adding, locals, reading, crashes, overlapped, torn>>

Id == 0 .. MaxRecords
Index == 0 .. MaxRecords \div Gap
Curr == Len(file) - 1
Records(i) == file[i + 1]
IndexOf(id) == id \div Gap
Written == FlattenSeq(file)

\* The constructor: the last file is open, its records are counted by their
\* lengths, a torn one included.
Constructed ==
  /\ total' = Curr' * Gap + Len(Last(file'))
  /\ open' = {Curr'}
  /\ pos' = [i \in Index |-> 0]
  /\ readId' = Curr' * Gap - 1 /\ readIndex' = Curr' /\ readOffset' = 0
  /\ adding' = Garbage
  /\ rpc' = [r \in Reader |-> "idle"]
  /\ offset' = [r \in Reader |-> 0] /\ got' = [r \in Reader |-> Garbage]

FileInit ==
  /\ file = << <<>> >> /\ total = 0
  /\ open = {0} /\ pos = [i \in Index |-> 0]
  /\ readId = -1 /\ readIndex = 0 /\ readOffset = 0
  /\ adding = Garbage
  /\ rpc = [r \in Reader |-> "idle"]
  /\ offset = [r \in Reader |-> 0] /\ got = [r \in Reader |-> Garbage]
  /\ next = [r \in Reader |-> 0] /\ last = [r \in Reader |-> Garbage]
  /\ crashes = 0 /\ overlapped = FALSE /\ torn = FALSE

Inside == {r \in Reader : rpc[r] # "idle"}

-----------------------------------------------------------------------------
(* Append, under the write lock.                                           *)

\* A new file is begun when the last one has its records; the last one is
\* closed, whoever reads it.
BeginAppend(m) ==
  /\ Inside = {} /\ adding = Garbage
  /\ total < MaxRecords
  /\ IF IndexOf(total) > Curr
     THEN /\ file' = Append(file, <<>>)
          /\ open' = (open \union {IndexOf(total)}) \ {Curr}
     ELSE UNCHANGED <<file, open>>
  /\ adding' = m
  /\ UNCHANGED <<total, pos, cursor, locals, reading, crashes, overlapped, torn>>

\* Length and body are in the file.
EndAppend ==
  /\ adding # Garbage
  /\ file' = [file EXCEPT ![Len(file)] = Append(@, adding)]
  /\ total' = total + 1
  /\ adding' = Garbage
  /\ UNCHANGED <<open, pos, cursor, locals, reading, crashes, overlapped, torn>>

-----------------------------------------------------------------------------
(* Get, under the read lock.                                               *)

\* The file is opened only if it is not the one of the last read.
OpenFor(i) == IF i # readIndex THEN open \union {i} ELSE open

\* Mutant: the offset of the last read is used whichever record is asked for.
OffsetOfLast(id) == IF IndexOf(id) = readIndex THEN readOffset ELSE id - IndexOf(id) * Gap

OffsetOf(id) ==
  IF IndexOf(id) = readIndex /\ id = readId + 1 THEN readOffset ELSE id - IndexOf(id) * Gap

\* The offset is found and the file positioned.
Locate(r) ==
  /\ rpc[r] = "idle" /\ adding = Garbage
  /\ next[r] < total
  /\ LET i == IndexOf(next[r]) IN
       /\ i \in OpenFor(i)
       /\ open' = OpenFor(i)
       /\ offset' = [offset EXCEPT ![r] = OffsetOf(next[r])]
       /\ pos' = [pos EXCEPT ![i] = offset'[r]]
  /\ rpc' = [rpc EXCEPT ![r] = "read"]
  /\ overlapped' = (overlapped \/ Inside # {})
  /\ UNCHANGED <<file, total, cursor, adding, got, reading, crashes, torn>>

\* A torn record takes its body from what follows, and every later one begins
\* somewhere inside another.
RecordAt(i, k) ==
  IF \E j \in 1 .. k + 1 : Records(i)[j] = Torn THEN Garbage ELSE Records(i)[k + 1]

\* fread of a whole record succeeds.
Complete(i, k) ==
  /\ i \in open
  /\ k < Len(Records(i))
  /\ ~(k + 1 = Len(Records(i)) /\ Records(i)[k + 1] = Torn)

Read(r) ==
  /\ rpc[r] = "read"
  /\ LET i == IndexOf(next[r]) IN
       /\ Complete(i, pos[i])
       /\ got' = [got EXCEPT ![r] = RecordAt(i, pos[i])]
       /\ pos' = [pos EXCEPT ![i] = @ + 1]
  /\ rpc' = [rpc EXCEPT ![r] = "finish"]
  /\ UNCHANGED <<file, total, open, cursor, adding, offset, reading, crashes, overlapped, torn>>

\* Mutant: the file of the last read stays open.
StillUsed(i) == TRUE
\* The file of the last read is closed unless it is read or written further.
Used(i) == i = readIndex \/ readIndex = Curr

\* Get returns, and CFlowReader goes on to the next id.
Finish(r) ==
  /\ rpc[r] = "finish"
  /\ LET i == IndexOf(next[r]) IN
       /\ open' = IF Used(i) THEN open ELSE open \ {readIndex}
       /\ readIndex' = i
  /\ readId' = next[r]
  /\ readOffset' = offset[r] + 1
  /\ rpc' = [rpc EXCEPT ![r] = "idle"]
  /\ next' = [next EXCEPT ![r] = @ + 1]
  /\ last' = [last EXCEPT ![r] = got[r]]
  /\ UNCHANGED <<file, total, pos, adding, offset, got, crashes, overlapped, torn>>

-----------------------------------------------------------------------------
(* The process ends and is started again.                                  *)

Killed ==
  \/ file' = file /\ torn' = torn
  \/ /\ adding # Garbage
     /\ \E end \in {adding, Torn} :
          /\ file' = [file EXCEPT ![Len(file)] = Append(@, end)]
          /\ torn' = (torn \/ end = Torn)

\* Killed, or by exit, which writes out what fwrite has buffered, or when a
\* file is NULL or a record not complete.  (How many records the constructor
\* finds once more has been appended to a torn one is not modelled.)
Restart ==
  /\ crashes < MaxCrashes
  /\ \A k \in 1 .. Len(Last(file)) - 1 : Last(file)[k] # Torn
  /\ crashes' = crashes + 1
  /\ Killed
  /\ Constructed
  /\ UNCHANGED <<reading, overlapped>>

FileNext ==
  \/ \E m \in Message : BeginAppend(m)
  \/ EndAppend
  \/ \E r \in Reader : Locate(r) \/ Read(r) \/ Finish(r)
  \/ Restart

FileSpec == FileInit /\ [][FileNext]_fileVars

-----------------------------------------------------------------------------
(* Properties.                                                             *)

FileTypeOK ==
  /\ file \in Seq(Seq(Message \union {Torn})) /\ Len(file) - 1 \in Index
  /\ total \in Id /\ open \subseteq Index
  /\ readId \in -1 .. MaxRecords /\ {readIndex} \subseteq Index /\ readOffset \in 0 .. Gap
  /\ pos \in [Index -> 0 .. Gap]
  /\ adding \in Message \union {Garbage}
  /\ rpc \in [Reader -> {"idle", "read", "finish"}]
  /\ next \in [Reader -> Id] /\ last \in [Reader -> Message \union {Garbage}]
  /\ offset \in [Reader -> 0 .. Gap] /\ got \in [Reader -> Message \union {Garbage}]

\* However the readers jump from file to file, no more files are open than the
\* one written, the one read last and the one being read.
FilesBounded ==
  /\ FileTypeOK
  /\ ~overlapped =>
       open \subseteq {Curr, readIndex} \union {IndexOf(next[r]) : r \in Inside}

\* The files are one append-only log: what the readers are given is what was
\* appended, file after file and across restarts, until two readers are inside
\* Get at once or a record is torn.
Abstract == INSTANCE MessageFlow WITH
  Message <- Message \union {Garbage, Torn}, log <- Written, broken <- overlapped \/ torn
ImplementsFlow == Abstract!Spec
=============================================================================
