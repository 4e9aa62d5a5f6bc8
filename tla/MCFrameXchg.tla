---------------------------- MODULE MCFrameXchg -----------------------------
(* Small instances of FrameXchg: a frame that needs no response, as a probe   *)
(* response, and one that is retried and waits for a response.               *)
EXTENDS FrameXchg

CONSTANTS f1, f2

Kind(retry, listen, again) ==
    [retry_interval |-> retry, resp_timeout |-> listen, retries_on_ack |-> again]

MCKinds == {Kind(FALSE, FALSE, 0), Kind(TRUE, TRUE, 1)}

=============================================================================
