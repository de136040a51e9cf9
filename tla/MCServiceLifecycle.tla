-------------------------- MODULE MCServiceLifecycle --------------------------
(* A process that serves two HTTP requests, a unary RPC and a stream. *)
EXTENDS ServiceLifecycle

CONSTANTS h1, h2, g1, g2

MCRequests == {h1, h2, g1, g2}
MCTransport == [r \in MCRequests |-> IF r \in {h1, h2} THEN "http" ELSE "grpc"]
===============================================================================
