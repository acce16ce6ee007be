--------------------------- MODULE PythonBinding ---------------------------
(***************************************************************************)
(* AetherisClient of bindings/python, used by several threads: a call      *)
(* holds the lock from the write of its line to the read of the next one.  *)
(* One client has one server process for its whole life.                   *)
(***************************************************************************)
EXTENDS StdioServer

VARIABLE lock  \* the call that holds _lock, "free" otherwise

PythonInit == lock = "free"

(* Popen, in the constructor.                                              *)
start ==
    /\ process[1] = "none"
    /\ process' = [process EXCEPT ![1] = "running"]
    /\ UNCHANGED <<stdin, eof, stdout, result, lock>>

call(c) ==
    /\ process[1] # "none" /\ result[c] = "unasked"
    /\ result' = [result EXCEPT ![c] = "waiting"]
    /\ UNCHANGED <<process, stdin, eof, stdout, lock>>

(* The write raises when stdin is closed or the process is gone.           *)
written(c) ==
    IF 1 \notin eof /\ process[1] \in {"running", "leaving"}
    THEN /\ lock' = c
         /\ stdin' = [stdin EXCEPT ![1] = Append(@, c)]
         /\ result' = [result EXCEPT ![c] = "pending"]
    ELSE /\ result' = [result EXCEPT ![c] = "failed"]
         /\ UNCHANGED <<lock, stdin>>

(* Faulty variant: the lock is not taken.                                  *)
write_unlocked(c) ==
    /\ result[c] = "waiting"
    /\ written(c)
    /\ UNCHANGED <<process, eof, stdout>>

write(c) ==
    /\ result[c] = "waiting" /\ lock = "free"
    /\ written(c)
    /\ UNCHANGED <<process, eof, stdout>>

readline(c) ==
    /\ result[c] = "pending"
    /\ \/ /\ stdout[1] # <<>>
          /\ stdout' = [stdout EXCEPT ![1] = Tail(@)]
          /\ result' = [result EXCEPT ![c] = Head(stdout[1])]
       \/ /\ stdout[1] = <<>> /\ process[1] \in {"exited", "crashed"}
          /\ result' = [result EXCEPT ![c] = "failed"]
          /\ UNCHANGED stdout
    /\ lock' = "free"
    /\ UNCHANGED <<process, stdin, eof>>

(* The finally clause of quit(), after the lock was given back.            *)
close_stdin ==
    /\ result[Quit] = "failed" \/ Answered(Quit)
    /\ 1 \notin eof
    /\ eof' = eof \cup {1}
    /\ UNCHANGED <<process, stdin, stdout, result, lock>>

PythonNext ==
    \/ ServerNext /\ UNCHANGED lock
    \/ start \/ close_stdin
    \/ \E c \in Calls : call(c) \/ write(c) \/ readline(c)

-----------------------------------------------------------------------------
PythonTypeOK == lock \in Calls \cup {"free"}

(* Whatever other threads do, and even when the server crashes or was told *)
(* to quit: no call gets the answer of another, and none is abandoned in   *)
(* the pipes while its call is over.                                       *)
PythonAnswers ==
    /\ \A c \in Calls : Answered(c) => result[c] = c
    /\ \A c \in Range(stdin[1]) \cup Range(stdout[1]) : result[c] = "pending" \/ process[1] \in {"exited", "crashed"}
=============================================================================
