----------------------------- MODULE BlockStore -----------------------------
(***************************************************************************)
(* What libhfs/block.c promises its callers: a volume is an array of       *)
(* logical blocks.  A read returns the latest contents of its block, a     *)
(* write replaces the contents of one block, and the medium lags behind    *)
(* by an arbitrary set of blocks until a flush succeeds.                   *)
(***************************************************************************)
EXTENDS Integers

CONSTANTS VLen,     \* number of logical blocks of the volume (hfsvol.vlen)
          Values    \* contents of a block

VARIABLES contents, \* what the callers have stored
          durable,  \* what the medium holds
          ret       \* what the last call returned

Blocks == 0 .. VLen - 1

Returned(op, n, v, ok) == [op |-> op, n |-> n, v |-> v, ok |-> ok]

NoValue == "none"

Init == /\ contents \in [Blocks -> Values]
        /\ durable = contents
        /\ ret = Returned("none", 0, NoValue, TRUE)

(* The cache may store any of its blocks on the medium behind any call.    *)
WriteBack == \A n \in Blocks : durable'[n] \in {durable[n], contents[n]}

Read(n) == /\ n \in Blocks
           /\ ret' = Returned("read", n, contents[n], TRUE)
           /\ UNCHANGED contents
           /\ WriteBack

(* A cached write reaches the medium later; an uncached one at once.       *)
Write(n, v) ==
    /\ n \in Blocks
    /\ contents' = [contents EXCEPT ![n] = v]
    /\ ret' = Returned("write", n, NoValue, TRUE)
    /\ \A k \in Blocks : durable'[k] \in {durable[k], contents[k], contents'[k]}

(* A failing call changes nothing its caller can see.                      *)
Fail(op, n) == /\ ret' = Returned(op, n, NoValue, FALSE)
               /\ UNCHANGED contents
               /\ WriteBack

Flush == /\ ret' = Returned("flush", 0, NoValue, TRUE)
         /\ durable' = contents
         /\ UNCHANGED contents

(* The cache is given up: what the medium holds is what is left, and that  *)
(* is everything when the call reports success.                            *)
Finish(ok) == /\ ret' = Returned("finish", 0, NoValue, ok)
              /\ WriteBack
              /\ ok => durable' = contents
              /\ contents' = durable'

Crash == /\ contents' = durable
         /\ ret' = Returned("crash", 0, NoValue, TRUE)
         /\ UNCHANGED durable

Start == /\ ret' = Returned("init", 0, NoValue, TRUE)
         /\ UNCHANGED <<contents, durable>>

Next == \/ \E n \in Blocks : Read(n)
        \/ \E n \in Blocks, v \in Values : Write(n, v)
        \/ \E n \in 0 .. VLen, op \in {"read", "write", "flush"} : Fail(op, n)
        \/ Flush
        \/ \E ok \in BOOLEAN : Finish(ok)
        \/ Crash
        \/ Start

Spec == Init /\ [][Next]_<<contents, durable, ret>>
=============================================================================
