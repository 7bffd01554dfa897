---------------------------- MODULE DnsExchange -----------------------------
(***************************************************************************)
(* DiscoveryDnsExchange (shared/dns.rs): one DNS message to a resolver and *)
(* back, under one of its two drivers, `run` of compose/client.rs and the  *)
(* loop of a std client (rfc6186/client.rs).  TCP carries the message      *)
(* behind two length bytes; HTTP is an external send (io-http).  The       *)
(* resolver is the bytes it sends and what it does then: close, or stay    *)
(* open and silent.                                                        *)
(***************************************************************************)
EXTENDS Integers, Sequences

CONSTANTS
  Base,     \* how many values a byte has
  Queries,  \* the messages to send
  Streams,  \* the bytes a resolver may send on the connection
  MaxRead   \* the size of the driver's read buffer

Byte == 0 .. Base - 1

ASSUME ByteAssumption == Base \in Nat \ {0}
ASSUME StreamAssumption == Streams \subseteq Seq(Byte)
ASSUME BufferAssumption == MaxRead \in Nat \ {0}

(* DNS_QUERY_BUF_SIZE keeps a query far below what two bytes can tell.     *)
ASSUME QueryAssumption == \A q \in Queries : q \in Seq(Byte) /\ Len(q) < Base * Base

VARIABLES
  transport,  \* "tcp" or "http", by the scheme of the resolver
  driver,     \* "compose" or "std"
  query,      \* the message
  stream,     \* what the resolver sends
  ending,     \* what the resolver does then: "closed" or "silent"
  state,      \* the state of the coroutine
  response,   \* the bytes state TcpRead holds
  http,       \* where the external send is
  arg,        \* the argument of the next resume: <<>>, or <<bytes>>
  want,       \* the last yield not served yet: "none", "write" or "read"
  written,    \* the bytes written
  at,         \* how many bytes of stream were read
  broken,     \* history: a read or a write failed
  result      \* what the driver returns

inputs == <<transport, driver, query, stream, ending>>
vars == <<inputs, state, response, http, arg, want, written, at, broken, result>>

Result == [kind : {"none", "ok", "eof", "http", "io"}, body : Seq(Byte)]

Outcome(kind) == [kind |-> kind, body |-> <<>>]

(* The types.                                                              *)
ExchangeTypes ==
  /\ transport \in {"tcp", "http"} /\ driver \in {"compose", "std"}
  /\ query \in Queries /\ stream \in Streams /\ ending \in {"closed", "silent"}
  /\ state \in {"TcpWrite", "TcpRead", "Http", "Done"}
  /\ response \in Seq(Byte) /\ written \in Seq(Byte)
  /\ http \in {"send", "receive"}
  /\ arg \in Seq(Seq(Byte)) /\ Len(arg) <= 1
  /\ want \in {"none", "write", "read"}
  /\ at \in 0 .. Len(stream)
  /\ broken \in BOOLEAN
  /\ result \in Result

-----------------------------------------------------------------------------
(* to_be_bytes of a length cut to two bytes.                               *)
LengthBytes(n) == <<(n \div Base) % Base, n % Base>>

Framed(message) == LengthBytes(Len(message)) \o message

BodyLen(bytes) == Base * bytes[1] + bytes[2]

(* Mutant: one byte more than needed.                                      *)
HasMoreThanFrame(bytes) == Len(bytes) >= 2 /\ Len(bytes) > 2 + BodyLen(bytes)

HasFrame(bytes) == Len(bytes) >= 2 /\ Len(bytes) >= 2 + BodyLen(bytes)

(* Mutant: no truncate.                                                    *)
BodyAndMore(bytes) == SubSeq(bytes, 3, Len(bytes))

Body(bytes) == SubSeq(bytes, 3, 2 + BodyLen(bytes))

Init ==
  /\ transport \in {"tcp", "http"} /\ driver \in {"compose", "std"}
  /\ query \in Queries /\ stream \in Streams /\ ending \in {"closed", "silent"}
  /\ state = IF transport = "tcp" THEN "TcpWrite" ELSE "Http"
  /\ response = <<>> /\ http = "send" /\ arg = <<>> /\ want = "none"
  /\ written = <<>> /\ at = 0 /\ broken = FALSE
  /\ result = Outcome("none")

-----------------------------------------------------------------------------
(* resume: called when the last yield is served.  mem::take leaves Done.   *)
Resumed == result.kind = "none" /\ want = "none"

Complete(outcome) == result' = outcome /\ state' = "Done" /\ UNCHANGED want

Yield(wish, next) == want' = wish /\ state' = next /\ UNCHANGED result

Eof == arg # <<>> /\ arg[1] = <<>>

Received == response \o IF arg = <<>> THEN <<>> ELSE arg[1]

ResumeWrite ==
  /\ Resumed /\ state = "TcpWrite"
  /\ Yield("write", "TcpRead")
  /\ response' = <<>> /\ arg' = <<>>
  /\ UNCHANGED <<inputs, http, written, at, broken>>

ResumeEof ==
  /\ Resumed /\ state = "TcpRead" /\ Eof
  /\ Complete(Outcome("eof"))
  /\ arg' = <<>>
  /\ UNCHANGED <<inputs, response, http, written, at, broken>>

ResumeAnswer ==
  /\ Resumed /\ state = "TcpRead" /\ ~Eof /\ HasFrame(Received)
  /\ Complete([kind |-> "ok", body |-> Body(Received)])
  /\ response' = Received /\ arg' = <<>>
  /\ UNCHANGED <<inputs, http, written, at, broken>>

(* Mutants: the buffer not kept, and the state not put back.               *)
Forget(bytes) == <<>>
Keep(bytes) == bytes

DropState(next) == "Done"
PutBack(next) == next

ResumeMore ==
  /\ Resumed /\ state = "TcpRead" /\ ~Eof /\ ~HasFrame(Received)
  /\ Yield("read", PutBack("TcpRead"))
  /\ response' = Keep(Received) /\ arg' = <<>>
  /\ UNCHANGED <<inputs, http, written, at, broken>>

(* The HTTP send writes its request, then reads until it has a response.   *)
(* Any status but 2xx, a redirect and an error are failures alike.         *)
HttpWrite ==
  /\ Resumed /\ state = "Http" /\ http = "send"
  /\ Yield("write", "Http")
  /\ http' = "receive" /\ arg' = <<>>
  /\ UNCHANGED <<inputs, response, written, at, broken>>

HttpRead ==
  /\ Resumed /\ state = "Http" /\ http = "receive" /\ ~Eof
  /\ Yield("read", "Http")
  /\ arg' = <<>>
  /\ UNCHANGED <<inputs, response, http, written, at, broken>>

HttpEnd ==
  /\ Resumed /\ state = "Http" /\ http = "receive" /\ arg # <<>>
  /\ \E kind \in {"ok", "http"} : Complete(Outcome(kind))
  /\ arg' = <<>>
  /\ UNCHANGED <<inputs, response, http, written, at, broken>>

Resume ==
  \/ ResumeWrite \/ ResumeEof \/ ResumeAnswer \/ ResumeMore
  \/ HttpWrite \/ HttpRead \/ HttpEnd

(* The arm of Done: a coroutine that completed, or lost its state, panics. *)
Panic == Resumed /\ state = "Done"

-----------------------------------------------------------------------------
(* The drivers: each serves the wish, then resumes with what was read.     *)
Wire == IF transport = "tcp" THEN Framed(query) ELSE query

Write ==
  /\ result.kind = "none" /\ want = "write"
  /\ written' = written \o Wire
  /\ want' = "none"
  /\ UNCHANGED <<inputs, state, response, http, arg, at, broken, result>>

Read ==
  /\ result.kind = "none" /\ want = "read"
  /\ \E n \in 1 .. MaxRead :
       /\ at + n <= Len(stream)
       /\ arg' = <<SubSeq(stream, at + 1, at + n)>>
       /\ at' = at + n
  /\ want' = "none"
  /\ UNCHANGED <<inputs, state, response, http, written, broken, result>>

(* A read returns nothing only when the peer has closed.                   *)
ReadEnd ==
  /\ result.kind = "none" /\ want = "read" /\ at = Len(stream) /\ ending = "closed"
  /\ arg' = <<<<>>>>
  /\ want' = "none"
  /\ UNCHANGED <<inputs, state, response, http, written, at, broken, result>>

(* A stream that cannot be opened, read or written: the compose hands an   *)
(* empty read to the coroutine, a std client returns the error.            *)
Fail ==
  /\ result.kind = "none" /\ want # "none"
  /\ broken' = TRUE
  /\ want' = "none"
  /\ \/ driver = "compose" /\ arg' = <<<<>>>> /\ UNCHANGED result
     \/ driver = "std" /\ result' = Outcome("io") /\ UNCHANGED arg
  /\ UNCHANGED <<inputs, state, response, http, written, at>>

Returned == result.kind # "none" /\ UNCHANGED vars

Next == Resume \/ Write \/ Read \/ ReadEnd \/ Fail \/ Returned

Spec == Init /\ [][Next]_vars

(* The driver's loop never pauses, and a read returns when there is        *)
(* something to read or the peer has closed.  Nothing makes an operation   *)
(* fail, and nothing ends a read from a silent peer.                       *)
Fairness == WF_vars(Resume \/ Write \/ Read \/ ReadEnd)

FairSpec == Spec /\ Fairness
-----------------------------------------------------------------------------
Starts(bytes, message) ==
  /\ Len(message) + 2 <= Len(bytes)
  /\ SubSeq(bytes, 1, Len(message) + 2) = Framed(message)

(* The messages that start a stream, as their sender frames them: one, or  *)
(* none when the stream ends too early.                                    *)
FirstOf(bytes) ==
  {message \in {SubSeq(bytes, 3, n) : n \in 2 .. Len(bytes)} : Starts(bytes, message)}

Answered == result.kind = "ok" /\ transport = "tcp"

(* However the answer is cut into reads, what TcpRead returns (dns.rs:188) *)
(* is the message the resolver framed first, whole and without what follows*)
(* it on the stream.                                                       *)
AnswerIsFirstMessage == Answered => Starts(stream, result.body)

(* The coroutine never asks for more bytes when it was given a whole       *)
(* answer: the resolver owes nothing more and the read would block forever.*)
NeverWaitsInVain ==
  (want = "read" /\ transport = "tcp") => FirstOf(SubSeq(stream, 1, at)) = {}

(* The error for a stream that ended early (dns.rs:190) is never given to  *)
(* a caller whose answer arrived.                                          *)
EofIsDeserved ==
  result.kind = "eof" => broken \/ (ending = "closed" /\ FirstOf(stream) = {})

(* The types; and the panic of a spent coroutine (dns.rs:237) is never     *)
(* reached: each yield puts back the state mem::take took, and neither     *)
(* driver goes on after Complete.                                          *)
ExchangeTypeOK == ExchangeTypes /\ ~Panic

(* The resolver, unframing what was written, finds the query, once.        *)
QueryArrivesWhole ==
  (transport = "tcp" /\ written # <<>>) =>
    Len(written) = 2 + Len(query) /\ HasFrame(written) /\ Body(written) = query

(* An exchange ends when its stream does, and when its answer is there     *)
(* even if the resolver keeps the connection open.                         *)
Termination ==
  (ending = "closed" \/ (transport = "tcp" /\ FirstOf(stream) # {})) ~> result.kind # "none"
=============================================================================
