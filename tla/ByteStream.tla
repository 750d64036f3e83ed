----------------------------- MODULE ByteStream -----------------------------
(***************************************************************************)
(* What RingBuffer (v1/relay/buffer.go) promises to the two goroutines of  *)
(* a copyLoop: a stream of bytes.  A Write puts what it was given, in      *)
(* order and piece by piece, at the end; a Read takes some bytes off the   *)
(* front and returns exactly those; Flush and Close drop everything.       *)
(***************************************************************************)
EXTENDS Sequences, Naturals

CONSTANTS Writers, Readers, Payloads

VARIABLES
    rest,       \* writer -> the bytes its Write has yet to put
    stream,     \* the bytes written and not yet read
    got,        \* reader -> the bytes its last Read returned
    status      \* "open", "writeClosed" or "closed"

svars == <<rest, stream, got, status>>

Init ==
    /\ rest = [w \in Writers |-> <<>>]
    /\ stream = <<>>
    /\ got = [r \in Readers |-> <<>>]
    /\ status = "open"

Call(w) ==
    /\ rest[w] = <<>>
    /\ \E p \in Payloads : rest' = [rest EXCEPT ![w] = p]
    /\ UNCHANGED <<stream, got, status>>

Put(w) ==
    /\ status = "open"
    /\ \E n \in 1 .. Len(rest[w]) :
           /\ stream' = stream \o SubSeq(rest[w], 1, n)
           /\ rest' = [rest EXCEPT ![w] = SubSeq(@, n + 1, Len(@))]
    /\ UNCHANGED <<got, status>>

\* A Write on a closed stream gives up what it has not put.
GiveUp(w) ==
    /\ status # "open"
    /\ rest' = [rest EXCEPT ![w] = <<>>]
    /\ UNCHANGED <<stream, got, status>>

Get(r) ==
    /\ \E n \in 1 .. Len(stream) :
           /\ got' = [got EXCEPT ![r] = SubSeq(stream, 1, n)]
           /\ stream' = SubSeq(stream, n + 1, Len(stream))
    /\ UNCHANGED <<rest, status>>

Fail(r) ==
    /\ stream = <<>> /\ status # "open"
    /\ got' = [got EXCEPT ![r] = <<>>]
    /\ UNCHANGED <<rest, stream, status>>

Drop == stream' = <<>> /\ UNCHANGED <<rest, got, status>>

End(s) ==
    /\ status # "closed"
    /\ status' = s
    /\ stream' = IF s = "closed" THEN <<>> ELSE stream
    /\ UNCHANGED <<rest, got>>

Next ==
    \/ \E w \in Writers : Call(w) \/ Put(w) \/ GiveUp(w)
    \/ \E r \in Readers : Get(r) \/ Fail(r)
    \/ Drop \/ End("writeClosed") \/ End("closed")

Spec == Init /\ [][Next]_svars
=============================================================================
