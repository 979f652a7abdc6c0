----------------------------- MODULE ObjectStore ----------------------------
(***************************************************************************)
(* The object-store substrate (datarail-substrate-objectstore): a sender   *)
(* process PUTs cofres into a bucket directory, a receiver process lists,  *)
(* reads and deletes them.  The two share only the file system, so every   *)
(* file operation of one may fall between any two of the other; the        *)
(* receiver's bookkeeping is lost when it restarts.                        *)
(*                                                                         *)
(* A cofre is its <<stream, seq>>, which is also its object's path.  The   *)
(* sender PUTs the numbers of a stream in order (recv's precondition).     *)
(***************************************************************************)
EXTENDS Integers, FiniteSets

CONSTANTS
    ObjStreams,         \* stream directories, as numbers: their sorting order
    ObjMaxSeq,          \* numbers of a stream: 0..ObjMaxSeq
    MaxReopens          \* times the receiver is restarted

ASSUME ObjAssumption == ObjStreams \subseteq Int /\ ObjMaxSeq \in Nat

VARIABLES
    objects,            \* the <seq>.cofre files
    dirs,               \* stream directories that exist
    tmps,               \* temporary files
    put,                \* the sender's send: its stage and its cofre
    nextPut,            \* the next number of a stream
    rcv,                \* the receiver: its stage, and what the stage works on
    cursors,            \* stream -> highest number delivered; -1 when absent
    by_id,              \* delivered, not acknowledged
    objHanded,          \* cofres recv ever returned
    objAsked,           \* cofres ack was ever called for
    skewed,             \* cofres a listing passed over for a later one of their stream
    reopens

objVars == <<objects, dirs, tmps, put, nextPut, rcv, cursors, by_id, objHanded, objAsked,
             skewed, reopens>>

ObjCofres == ObjStreams \X (0..ObjMaxSeq)
Resting == [stage |-> "idle", work |-> {}]
NoCursor == -1

ObjInit ==
    /\ objects = {} /\ dirs = {} /\ tmps = {}
    /\ put = Resting /\ rcv = Resting
    /\ nextPut = [s \in ObjStreams |-> 0]
    /\ cursors = [s \in ObjStreams |-> NoCursor]
    /\ by_id = {} /\ objHanded = {} /\ objAsked = {} /\ skewed = {}
    /\ reopens = 0

receiverVars == <<rcv, cursors, by_id, objHanded, objAsked, skewed, reopens>>
senderVars == <<tmps, put, nextPut>>

-----------------------------------------------------------------------------
(* send: create the directory, write a temporary file, rename it.          *)

PutMkdir(s) ==
    /\ put.stage = "idle"
    /\ nextPut[s] <= ObjMaxSeq
    /\ dirs' = dirs \cup {s}
    /\ put' = [stage |-> "write", work |-> {<<s, nextPut[s]>>}]
    /\ UNCHANGED <<objects, tmps, nextPut, receiverVars>>

\* The write fails when the directory was removed meanwhile; send returns the
\* error, and the caller may send the cofre again.
PutWrite ==
    /\ put.stage = "write"
    /\ \E c \in put.work :
          IF c[1] \in dirs THEN tmps' = tmps \cup {c} /\ put' = [put EXCEPT !.stage = "rename"]
                           ELSE put' = Resting /\ UNCHANGED tmps
    /\ UNCHANGED <<objects, dirs, nextPut, receiverVars>>

PutRename ==
    /\ put.stage = "rename"
    /\ \E c \in put.work :
          /\ tmps' = tmps \ {c}
          /\ objects' = objects \cup {c}
          /\ nextPut' = [nextPut EXCEPT ![c[1]] = @ + 1]
    /\ put' = Resting
    /\ UNCHANGED <<dirs, receiverVars>>

-----------------------------------------------------------------------------
(* recv: list the bucket, sort, skip what the cursors cover, read one.     *)

ListBegin ==
    /\ rcv.stage = "idle"
    /\ rcv' = [stage |-> "list", work |-> objects]
    /\ UNCHANGED <<objects, dirs, senderVars, cursors, by_id, objHanded, objAsked, skewed, reopens>>

\* Bug: the cursor covers the streams that sort before the delivered one too.
CoveredBySorting(c) == \E s \in ObjStreams : c[1] <= s /\ c[2] <= cursors[s]

Covered(c) == c[2] <= cursors[c[1]]

Sorted(c, d) == c[1] < d[1] \/ (c[1] = d[1] /\ c[2] <= d[2])

\* The listing holds what was there when it began; of what was renamed while
\* it ran, the directory scan returns any part.
Listings == {rcv.work \cup new : new \in SUBSET (objects \ rcv.work)}

RecvObject ==
    /\ rcv.stage = "list"
    /\ \E listing \in Listings :
          LET fresh == {c \in listing : ~ Covered(c)}
          IN  /\ fresh # {}
              /\ \E c \in fresh :
                    /\ \A d \in fresh : Sorted(c, d)
                    /\ cursors' = [cursors EXCEPT ![c[1]] = c[2]]
                    /\ by_id' = by_id \cup {c}
                    /\ objHanded' = objHanded \cup {c}
                    /\ skewed' = skewed \cup {d \in objects \ listing : d[1] = c[1] /\ d[2] < c[2]}
    /\ rcv' = Resting
    /\ UNCHANGED <<objects, dirs, senderVars, objAsked, reopens>>

RecvNothing ==
    /\ rcv.stage = "list"
    /\ \A c \in rcv.work : Covered(c)
    /\ rcv' = Resting
    /\ UNCHANGED <<objects, dirs, senderVars, cursors, by_id, objHanded, objAsked, skewed, reopens>>

-----------------------------------------------------------------------------
(* ack: delete the object; when the stream is drained forget its cursor    *)
(* and remove its directory.                                               *)

\* remove_file may fail; the entry of by_id is gone by then.
AckRemove(c) ==
    /\ rcv.stage = "idle"
    /\ c \in by_id
    /\ by_id' = by_id \ {c}
    /\ objAsked' = objAsked \cup {c}
    /\ \/ objects' = objects \ {c} /\ rcv' = [stage |-> "drained", work |-> {c}]
       \/ UNCHANGED <<objects, rcv>>
    /\ UNCHANGED <<dirs, senderVars, cursors, objHanded, skewed, reopens>>

stream_drained(s) == \A c \in objects : c[1] # s

AckDrained ==
    /\ rcv.stage = "drained"
    /\ \E c \in rcv.work :
          IF stream_drained(c[1])
          THEN /\ cursors' = [cursors EXCEPT ![c[1]] = NoCursor]
               /\ rcv' = [rcv EXCEPT !.stage = "rmdir"]
          ELSE rcv' = Resting /\ UNCHANGED cursors
    /\ UNCHANGED <<objects, dirs, senderVars, by_id, objHanded, objAsked, skewed, reopens>>

\* Bug: the directory goes with whatever is in it.
RemovableAlways(s) == TRUE

\* remove_dir refuses a directory that is not empty; its result is ignored.
Removable(s) == \A c \in objects \cup tmps : c[1] # s

AckRmdir ==
    /\ rcv.stage = "rmdir"
    /\ \E c \in rcv.work :
          IF Removable(c[1])
          THEN dirs' = dirs \ {c[1]} /\ objects' = {d \in objects : d[1] # c[1]}
          ELSE UNCHANGED <<dirs, objects>>
    /\ rcv' = Resting
    /\ UNCHANGED <<senderVars, cursors, by_id, objHanded, objAsked, skewed, reopens>>

\* open, by a new receiver process.
Reopen ==
    /\ reopens < MaxReopens
    /\ reopens' = reopens + 1
    /\ cursors' = [s \in ObjStreams |-> NoCursor]
    /\ by_id' = {} /\ skewed' = {}
    /\ rcv' = Resting
    /\ UNCHANGED <<objects, dirs, senderVars, objHanded, objAsked>>

ObjWork == PutWrite \/ PutRename \/ AckDrained \/ AckRmdir
ObjRead == ListBegin \/ RecvObject \/ RecvNothing

ObjNext ==
    \/ \E s \in ObjStreams : PutMkdir(s)
    \/ ObjWork \/ ObjRead \/ Reopen
    \/ \E c \in ObjCofres : AckRemove(c)

ObjSpec == ObjInit /\ [][ObjNext]_objVars

-----------------------------------------------------------------------------
(* Properties.                                                             *)

\* An object in the bucket is ahead of its stream's cursor, or was delivered by
\* this receiver, unless a listing that overlapped two PUTs returned the later
\* object without the earlier one.
ObjNonePassedOver ==
    \A c \in objects : ~ Covered(c) \/ c \in by_id \/ c \in objAsked \/ c \in skewed

\* bookkeeping_len: the acknowledgement map holds only objects that exist, and
\* a cursor is kept only for a stream with an object, or between the deletion
\* of its last object and the check that finds the stream drained.
ObjBookkeepingLive ==
    /\ by_id \subseteq objects
    /\ \A s \in ObjStreams :
          cursors[s] # NoCursor => \/ \E c \in objects : c[1] = s
                                   \/ rcv.stage = "drained" /\ \E c \in rcv.work : c[1] = s

\* The receiver's view of the bucket: its cursors pass over no object, and its
\* bookkeeping is about objects that exist.
ObjInv == ObjNonePassedOver /\ ObjBookkeepingLive

ObjPromise == INSTANCE Holding WITH
    Cofres <- ObjCofres, held <- objects \ objAsked, handed <- objHanded, failed <- FALSE

\* The bucket is a durable substrate across restarts of the receiver: an object
\* leaves it only when its acknowledgement is asked for after it was received.
ObjIsHolding == ObjPromise!HoldSpec
=============================================================================
