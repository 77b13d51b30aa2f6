-------------------------------- MODULE MCQueue --------------------------------
(***************************************************************************)
(* ThreadSafeQueue for TLC: three threads, as those of the client.  One    *)
(* produces, as the epoll waiter does; one consumes and clears, as a       *)
(* servant does; one does either.                                          *)
(***************************************************************************)
EXTENDS ThreadSafeQueue

Pushing(v) == {<<"push", v>>, <<"push_front", v>>}

MCMayCall ==
    <<Pushing("a"), Pushing("b") \cup {<<"pop", None>>}, {<<"pop", None>>, <<"clear", None>>}>>
================================================================================
