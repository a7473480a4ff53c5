------------------------------- MODULE MCHeap -------------------------------
(* Instances of Heap for model checking. *)
EXTENDS Heap

Ask(ops, sizes, args) == [op : ops, size : sizes, arg : args]

(* Thread 1 makes every call, thread 2 competes for the same memory. *)
MCCalls ==
    [t \in {1, 2} |->
        IF t = 1
        THEN Ask({"alloc"}, {0, 2}, {0}) \cup Ask({"realloc"}, {8, 65533}, {0})
             \cup Ask({"calloc"}, {2}, {0})
             \cup Ask({"aligned"}, {2}, {1, 3, 40000}) \cup Ask({"aligned"}, {0}, {3})
             \cup Ask({"aligned"}, {65533}, {1, 3})
             \cup Ask({"fixed"}, {0}, {First + HDR, End, 0})
             \cup Ask({"free"}, {0}, {0})
        ELSE Ask({"realloc"}, {4}, {0})]
=============================================================================
