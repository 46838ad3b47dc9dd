------------------------------ MODULE SysDecode ------------------------------
(***************************************************************************)
(* The unmarshalling of nats-sysclient/src/unmarshal.c: a tree is decoded  *)
(* into structs by the calls SysSchema lists, strings are moved out of it, *)
(* and a failure unwinds through the calls, each of which frees what it    *)
(* made.  A block is known by the path of the member that points to it.    *)
(***************************************************************************)
EXTENDS SysSchema, FiniteSets, SequencesExt

CONSTANTS
  ArrLen,        \* bound: the length of the arrays of a reply
  MaxMissing     \* bound: members a reply does not have

ASSUME DecodeAssumption == ArrLen \in Nat \ {0} /\ MaxMissing \in Nat

VARIABLES
  payload,       \* the response: the key of its payload, and its type
  frames,        \* the parse functions under way, [t, at, i, pc]
  heap,          \* the blocks that are allocated, [at, moved]
  emptied,       \* the strings of the tree that were moved out of it
  lost,          \* history: blocks nothing points to
  missing,       \* history: members that were not there
  dst            \* the status of the decoding

decodeVars == <<payload, frames, heap, emptied, lost, missing, dst>>

Frame == frames[Len(frames)]
TypeOf(t) == IF t = "Resp" THEN Resp(payload) ELSE Schema[t]
CallOf(f) == TypeOf(f.t).parse[f.pc]
Busy == frames # <<>> /\ dst = "OK" /\ Frame.pc <= Len(TypeOf(Frame.t).parse)
Doing == CallOf(Frame)
At(c) == IF c.kind = "flat" THEN Frame.at ELSE Append(Frame.at, c.key)

Malloc(at) == [at |-> at, moved |-> FALSE]
Elements == 1..ArrLen
Advance == frames' = [frames EXCEPT ![Len(frames)].pc = @ + 1]
Fails(s) == dst' = s
Pushed(t, at, i) == Append(frames, [t |-> t, at |-> at, i |-> i, pc |-> 1])

-----------------------------------------------------------------------------
(* What a free function releases, of the blocks below its struct.          *)

RECURSIVE Frees(_, _)
Frees(t, rest) ==
  /\ t # "NULL" /\ rest # <<>>
  /\ \E c \in Range(TypeOf(t).free) :
       CASE c.kind = "fields" -> \E r \in Range(c.rows) : r.key = rest[1]
         [] c.kind = "flat"   -> Frees(c.free, rest)
         [] OTHER -> /\ c.key = rest[1]
                     /\ CASE c.kind = "inline" -> Frees(c.free, Tail(rest))
                          [] c.kind \in {"ptr", "box"} -> Len(rest) = 1 \/ Frees(c.free, Tail(rest))
                          [] c.kind = "vals" -> Len(rest) = 1 \/ Frees(c.free, SubSeq(rest, 3, Len(rest)))
                          [] c.kind = "ptrs" -> Len(rest) <= 2 \/ Frees(c.free, SubSeq(rest, 3, Len(rest)))
                          [] c.kind \in {"raws", "map"} -> TRUE

Below(path, b) == IsPrefix(path, b.at)
Rest(path, b) == SubSeq(b.at, Len(path) + 1, Len(b.at))

\* Fault: the element that failed is not released.
ReleasedByComplete(c, path, i, b) ==
  LET rest == Rest(path, b)
  IN CASE c.kind \in {"ptr", "box"} -> rest = <<>> \/ Frees(c.free, rest)
       [] c.kind = "vals" -> rest = <<>> \/ (rest[1] < i /\ Frees(c.free, Tail(rest)))
       [] c.kind = "ptrs" -> rest = <<>> \/ (rest[1] < i /\ (Len(rest) = 1 \/ Frees(c.free, Tail(rest))))
       [] OTHER -> FALSE

\* What a call that fails at its element i releases of the blocks below path.
ReleasedBy(c, path, i, b) ==
  LET rest == Rest(path, b)
  IN CASE c.kind \in {"ptr", "box"} -> rest = <<>> \/ Frees(c.free, rest)
       [] c.kind = "vals" -> rest = <<>> \/ (rest[1] <= i /\ Frees(c.free, Tail(rest)))
       [] c.kind = "ptrs" -> rest = <<>> \/ (rest[1] <= i /\ (Len(rest) = 1 \/ Frees(c.free, Tail(rest))))
       [] OTHER -> FALSE

-----------------------------------------------------------------------------
(* sysclient_scanFields: the rows one after the other.                     *)

\* Fault: a string is moved without emptying its node.
TakeCopies(at, row) ==
  CASE row.kind = "str"  -> [made |-> {[at |-> at, moved |-> TRUE]}, taken |-> {}]
    [] row.kind = "strs" -> [made |-> {Malloc(at)} \cup {[at |-> Append(at, i), moved |-> TRUE] : i \in Elements},
                             taken |-> {Append(at, i) : i \in Elements}]
    [] row.kind = "raw"  -> [made |-> {Malloc(at)}, taken |-> {}]
    [] row.kind = "num"  -> [made |-> {}, taken |-> {}]

\* natsJSON_TakeStr, natsJSON_TakeStrArray, _rawJSONField and the numbers.
Take(at, row) ==
  CASE row.kind = "str"  -> [made |-> {[at |-> at, moved |-> TRUE]}, taken |-> {at}]
    [] row.kind = "strs" -> [made |-> {Malloc(at)} \cup {[at |-> Append(at, i), moved |-> TRUE] : i \in Elements},
                             taken |-> {Append(at, i) : i \in Elements}]
    [] row.kind = "raw"  -> [made |-> {Malloc(at)}, taken |-> {}]
    [] row.kind = "num"  -> [made |-> {}, taken |-> {}]

\* The rows up to n, of which those in absent are not there.
Scanned(rows, n, absent) ==
  LET took == [i \in (1..n) \ absent |-> Take(Append(Frame.at, rows[i].key), rows[i])]
  IN /\ heap' = heap \cup UNION {took[i].made : i \in DOMAIN took}
     /\ emptied' = emptied \cup UNION {took[i].taken : i \in DOMAIN took}

\* How the read of a row can fail: a value of another type, or a number that its
\* member cannot hold; an array or a copy that cannot be allocated.
ReadFails(row) == (IF row.kind = "raw" THEN {} ELSE {"INVALID_ARG"})
                  \cup (IF row.kind \in {"strs", "raw"} THEN {"NO_MEMORY"} ELSE {})

ScanFields ==
  /\ Busy /\ Doing.kind = "fields"
  /\ LET rows == Doing.rows IN
     \/ \E absent \in {{}} \cup {{i} : i \in DOMAIN rows} :
          /\ missing + Cardinality(absent) <= MaxMissing
          /\ missing' = missing + Cardinality(absent)
          /\ Scanned(rows, Len(rows), absent) /\ Advance /\ UNCHANGED dst
     \/ \E n \in 1..Len(rows) : \E s \in ReadFails(rows[n]) :
          Scanned(rows, n - 1, {}) /\ Fails(s) /\ UNCHANGED <<frames, missing>>
  /\ UNCHANGED <<payload, lost>>

-----------------------------------------------------------------------------
(* The calls on a member that is an object or an array.                    *)

Unowned == UNCHANGED <<payload, emptied, lost>>

\* _lookupTyped finds no such member, or null; _lookupArray also an empty array.
NotThere ==
  /\ Busy /\ Doing.kind \notin {"fields", "flat"}
  /\ missing < MaxMissing /\ missing' = missing + 1
  /\ Advance /\ UNCHANGED <<heap, dst>> /\ Unowned

\* It is of another type.
WrongType ==
  /\ Busy /\ Doing.kind \notin {"fields", "flat", "box"}
  /\ Fails("INVALID_ARG") /\ UNCHANGED <<frames, heap, missing>> /\ Unowned

\* sysclient_objectInline, and parse functions called on the same node.
EnterInline ==
  /\ Busy /\ Doing.kind \in {"inline", "flat"}
  /\ frames' = Pushed(Doing.t, At(Doing), 0)
  /\ UNCHANGED <<heap, missing, dst>> /\ Unowned

\* The first allocation of sysclient_objectPtr, valueArray, ptrArray,
\* rawJSONArray and _parseHTTPReqStats.
AllocationFails ==
  /\ Busy /\ Doing.kind \in {"ptr", "box", "vals", "ptrs", "raws", "map"}
  /\ Fails("NO_MEMORY") /\ UNCHANGED <<frames, heap, missing>> /\ Unowned

\* Goes on with element i of an array; those held by pointer are allocated.
EnterElement(c, up, path, i, held) ==
  \/ /\ frames' = Append(up, [t |-> c.t, at |-> Append(path, i), i |-> i, pc |-> 1])
     /\ heap' = held \cup (IF c.kind = "ptrs" THEN {Malloc(Append(path, i))} ELSE {})
     /\ UNCHANGED dst
  \/ /\ c.kind = "ptrs" /\ Fails("NO_MEMORY")
     /\ frames' = Append(up, [t |-> c.t, at |-> Append(path, i), i |-> i, pc |-> 1])
     /\ heap' = held

EnterPtr ==
  /\ Busy /\ Doing.kind \in {"ptr", "box"}
  /\ frames' = Pushed(Doing.t, At(Doing), 0) /\ heap' = heap \cup {Malloc(At(Doing))}
  /\ UNCHANGED <<missing, dst>> /\ Unowned

EnterArray ==
  /\ Busy /\ Doing.kind \in {"vals", "ptrs"}
  /\ EnterElement(Doing, frames, At(Doing), 1, heap \cup {Malloc(At(Doing))})
  /\ UNCHANGED missing /\ Unowned

\* sysclient_rawJSONArray and _parseHTTPReqStats: the array and a copy for each
\* element; when one fails, the array is freed with the copies made so far.
CopyArray ==
  /\ Busy /\ Doing.kind \in {"raws", "map"}
  /\ \/ /\ heap' = heap \cup {Malloc(At(Doing))} \cup {Malloc(Append(At(Doing), i)) : i \in Elements}
        /\ Advance /\ UNCHANGED dst
     \/ /\ Fails("NO_MEMORY") /\ UNCHANGED <<frames, heap>>
     \/ /\ Doing.kind = "map" /\ Fails("INVALID_ARG") /\ UNCHANGED <<frames, heap>>
  /\ UNCHANGED missing /\ Unowned

\* A parse function has made its last call.
Return ==
  /\ frames # <<>> /\ dst = "OK" /\ Frame.pc > Len(TypeOf(Frame.t).parse)
  /\ LET up == Front(frames)
         f  == Frame
         c  == CallOf(up[Len(up)])
     IN IF up = <<>>
          THEN frames' = up /\ UNCHANGED <<heap, dst>>
        ELSE IF c.kind \in {"vals", "ptrs"} /\ f.i < ArrLen
          THEN EnterElement(c, up, Front(f.at), f.i + 1, heap)
        ELSE frames' = [up EXCEPT ![Len(up)].pc = @ + 1] /\ UNCHANGED <<heap, dst>>
  /\ UNCHANGED missing /\ Unowned

\* A parse function returns an error to the call that made it, which frees what
\* it had allocated; what is left of that has no owner any more.
UnwindFrame ==
  /\ Len(frames) > 1 /\ dst # "OK"
  /\ LET up == Front(frames)
         c  == CallOf(up[Len(up)])
         path == IF c.kind \in {"vals", "ptrs"} THEN Front(Frame.at) ELSE Frame.at
         own == {b \in heap : c.kind \notin {"inline", "flat"} /\ Below(path, b)}
     IN /\ heap' = heap \ own
        /\ lost' = lost \cup {b \in own : ~ReleasedBy(c, path, Frame.i, b)}
        /\ frames' = up
  /\ UNCHANGED <<payload, emptied, missing, dst>>

DecodeStep ==
  \/ ScanFields \/ NotThere \/ WrongType \/ EnterInline \/ AllocationFails \/ EnterPtr
  \/ EnterArray \/ CopyArray \/ Return \/ UnwindFrame

\* sysclient_destroyResp.
DestroyResp(path) == {b \in heap : Below(path, b) /\ (Rest(path, b) = <<>> \/ Frees("Resp", Rest(path, b)))}

-----------------------------------------------------------------------------
\* A string of the tree is freed with the tree or with the response, never with
\* both: one that a struct holds has left the tree (natsJSON_TakeStr), as the
\* tree is destroyed on success and on failure alike.
StringHasOneOwner == \A b \in heap : b.moved => b.at \in emptied
=============================================================================
