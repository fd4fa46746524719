-------------------------- MODULE ServiceConstants --------------------------
(* The calls of a service, whatever carries them. *)
CONSTANTS
    Calls,        \* calls, each made once
    Cancellable,  \* those whose caller may drop the future while it is pending
    NoCall        \* "nobody", where a call is expected

CallsConstants == Cancellable \subseteq Calls /\ NoCall \notin Calls

=============================================================================
