----------------------------- MODULE Allocator -----------------------------
(***************************************************************************)
(* What a heap promises the program: objects that lie inside the heap, do  *)
(* not overlap and keep what was stored in them; every call takes effect   *)
(* once, completely or not at all.  Heap implements this specification.    *)
(***************************************************************************)
EXTENDS Integers

CONSTANTS
    Threads,
    Low, High       \* addresses an object may occupy: Low .. High - 1

VARIABLES
    objs,           \* the objects: address -> (offset -> byte)
    req,            \* the call each thread makes: [op, size, arg]
    served          \* the threads whose call has taken effect or failed

vars == <<objs, req, served>>

Null == 0
Idle == [op |-> "none", size |-> 0, arg |-> 0]

Extent(o, p) == {p + i : i \in DOMAIN o[p]}

(* The objects lie inside the heap and apart from each other. *)
Apart(o) ==
    /\ \A p \in DOMAIN o : p >= Low /\ Extent(o, p) \subseteq Low .. High - 1
    /\ \A p, r \in DOMAIN o : p # r => Extent(o, p) \cap Extent(o, r) = {}

Init ==
    /\ objs = <<>>
    /\ req = [t \in Threads |-> Idle]
    /\ served = {}

Same(ps) == \A p \in ps : p \in DOMAIN objs' /\ objs'[p] = objs[p]

(***************************************************************************)
(* A new object of the size asked for, where it was asked for.  Alignments *)
(* are powers of two, rounded up when something else is asked for; from    *)
(* 256 on only the high byte is looked at, so 300 may give 256.            *)
(***************************************************************************)
Alignments == {1, 2, 4, 8, 16, 32, 64, 128, 256, 512, 1024, 2048, 4096, 8192, 16384, 32768}

Asked(arg) == IF arg < 256 THEN arg ELSE 256 * (arg \div 256)

Allocate(r) ==
    /\ r.op \in {"alloc", "calloc", "aligned", "fixed"} \/ (r.op = "realloc" /\ r.arg = Null)
    /\ Same(DOMAIN objs)
    /\ \E p \in DOMAIN objs' \ DOMAIN objs :
          /\ DOMAIN objs' = DOMAIN objs \cup {p}
          /\ DOMAIN objs'[p] = 0 .. r.size - 1
          /\ r.op = "calloc" => \A i \in 0 .. r.size - 1 : objs'[p][i] = "zero"
          /\ r.op = "aligned" => \E n \in Alignments : n >= Asked(r.arg) /\ p % n = 0
          /\ r.op = "fixed" => p = r.arg

Free(r) ==
    /\ r.op = "free"
    /\ objs' = [p \in DOMAIN objs \ {r.arg} |-> objs[p]]

(* The object gets another size and perhaps another place, not other contents. *)
Resize(r) ==
    /\ r.op = "realloc" /\ r.arg # Null
    /\ Same(DOMAIN objs \ {r.arg})
    /\ \E p \in DOMAIN objs' :
          /\ p \notin DOMAIN objs \ {r.arg}
          /\ DOMAIN objs' = (DOMAIN objs \ {r.arg}) \cup {p}
          /\ DOMAIN objs'[p] = 0 .. r.size - 1
          /\ \A i \in DOMAIN objs[r.arg] \cap DOMAIN objs'[p] : objs'[p][i] = objs[r.arg][i]

Fail(r) == r.op # "free" /\ objs' = objs

Serve(t) ==
    /\ t \notin served /\ served' = served \cup {t}
    /\ Allocate(req[t]) \/ Free(req[t]) \/ Resize(req[t]) \/ Fail(req[t])
    /\ UNCHANGED req

Call(t) ==
    /\ req[t] = Idle
    /\ req' = [req EXCEPT ![t] = req'[t]]
    /\ UNCHANGED <<objs, served>>

Return(t) ==
    /\ req' = [req EXCEPT ![t] = Idle]
    /\ served' = served \ {t}
    /\ UNCHANGED objs

(* The program stores into one of its objects. *)
Store ==
    /\ \E p \in DOMAIN objs :
          /\ DOMAIN objs' = DOMAIN objs
          /\ DOMAIN objs'[p] = DOMAIN objs[p]
          /\ Same(DOMAIN objs \ {p})
    /\ UNCHANGED <<req, served>>

Reset == objs' = <<>> /\ UNCHANGED <<req, served>>

Next ==
    /\ \/ \E t \in Threads : Serve(t) \/ Call(t) \/ Return(t)
       \/ Store
       \/ Reset
    /\ Apart(objs')

Spec == Init /\ [][Next]_vars
=============================================================================
