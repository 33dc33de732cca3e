----------------------------- MODULE BoundedBody ------------------------------
(***************************************************************************)
(* readBoundedTextRequest (workers/remote-mcp/src/bounded-request-body.ts):*)
(* one request body, read chunk by chunk under a limit of bytes, whatever  *)
(* its Content-Length declares.  A chunk is its number of bytes.           *)
(***************************************************************************)
EXTENDS Integers

CONSTANTS
  MaxBytes,   \* the limit
  ChunkSize,  \* how many bytes a chunk that is not empty may bring
  Length,     \* the lengths a header may declare
  Absent,     \* no Content-Length
  Malformed   \* one that is no number

ASSUME BodyAssumption ==
  /\ MaxBytes \in Nat
  /\ ChunkSize \subseteq Nat \ {0} /\ Length \subseteq Nat
  /\ Absent \notin Nat /\ Malformed \notin Nat

VARIABLES
  reading,    \* where the reader is, or how it ended
  declared,   \* the Content-Length
  sizeBytes,  \* the bytes counted
  kept,       \* the bytes of the chunks that are kept
  sent        \* history: the bytes the client has sent

bodyVars == << reading, declared, sizeBytes, kept, sent >>

BodyEnds == {"rebuilt", "invalid_length", "too_large", "invalid_utf8", "failed"}

BodyInit ==
  /\ reading = "idle" /\ declared = Absent
  /\ sizeBytes = 0 /\ kept = 0 /\ sent = 0

\* The header is a hint that may refuse a body before it is read.
Open(length) ==
  /\ reading = "idle"
  /\ declared' = length
  /\ reading' = CASE length = Malformed -> "invalid_length"
                  [] length \in Nat /\ length > MaxBytes -> "too_large"
                  [] OTHER -> "streaming"
  /\ UNCHANGED << sizeBytes, kept, sent >>

\* Mutant: the limit is compared with the bytes counted before this chunk.
ReadChunkLate(n) ==
  /\ reading = "streaming"
  /\ sent' = sent + n /\ sizeBytes' = sizeBytes + n
  /\ IF sizeBytes > MaxBytes
     THEN reading' = "too_large" /\ UNCHANGED kept
     ELSE kept' = kept + n /\ UNCHANGED reading
  /\ UNCHANGED declared

\* A chunk is counted first, and kept only within the limit.
ReadChunk(n) ==
  /\ reading = "streaming"
  /\ sent' = sent + n /\ sizeBytes' = sizeBytes + n
  /\ IF sizeBytes + n > MaxBytes
     THEN reading' = "too_large" /\ UNCHANGED kept
     ELSE kept' = kept + n /\ UNCHANGED reading
  /\ UNCHANGED declared

BreakOff ==
  /\ reading = "streaming" /\ reading' = "failed"
  /\ UNCHANGED << declared, sizeBytes, kept, sent >>

\* The end of the body: it is rebuilt without a Content-Length.
Finish(utf8) ==
  /\ reading = "streaming"
  /\ reading' = CASE declared # Absent /\ declared # sizeBytes -> "invalid_length"
                  [] (declared = Absent \/ declared = sizeBytes) /\ ~utf8 -> "invalid_utf8"
                  [] OTHER -> "rebuilt"
  /\ UNCHANGED << declared, sizeBytes, kept, sent >>

BodyNext ==
  \/ \E length \in Length \cup {Absent, Malformed} : Open(length)
  \/ \E n \in ChunkSize : ReadChunk(n)
  \/ BreakOff
  \/ \E utf8 \in BOOLEAN : Finish(utf8)

BodySpec == BodyInit /\ [][BodyNext]_bodyVars

-----------------------------------------------------------------------------
(* Properties *)

BodyTypeOK ==
  /\ reading \in {"idle", "streaming"} \cup BodyEnds
  /\ declared \in Length \cup {Absent, Malformed}
  /\ sizeBytes \in Nat /\ kept \in Nat /\ sent \in Nat

\* "The streamed bytes are always counted, including when the header is absent
\* or dishonest": the reader never keeps more than the limit; it hands on a body
\* that is all the client sent and as long as declared; and it calls a body too
\* large only when it is, or says it is.
BodyStaysWithinLimit ==
  /\ kept <= MaxBytes
  /\ reading = "rebuilt" => kept = sent /\ declared \in {Absent, sent}
  /\ reading = "too_large" =>
       \/ sent > MaxBytes
       \/ declared \in Nat /\ declared > MaxBytes
=============================================================================
