------------------------------- MODULE Download -------------------------------
(***************************************************************************)
(* One verified download after the other to the same destination           *)
(* (CurlClient::download in infra/http/curl_client.cpp).                   *)
(*                                                                         *)
(* The bytes that arrive are counted and checked on the way to a partial   *)
(* file, which gets the destination's name only when size and digest are   *)
(* right.  A file is abstracted to its size and whether every byte is the  *)
(* published one; the digest tells the latter (module Sha256).             *)
(***************************************************************************)
EXTENDS Naturals

CONSTANTS
    Size,           \* expected.size
    MaxChunk,       \* the most bytes one call of the write callback brings
    NoFile,
    MaxDownloads,   \* how many downloads are started
    MaxCuts         \* how many power cuts may happen

ASSUME DownloadAssumption ==
    Size \in Nat \ {0} /\ MaxChunk \in Nat \ {0} /\ MaxDownloads \in Nat /\ MaxCuts \in Nat

VARIABLES
    dest, part, \* the destination and the ".part" next to it
    at,         \* where download() is
    sink,       \* FileSink: written and failed; good says what the hasher will
    reply,      \* what download() returned
    downloads, powerCuts

downloadVars == <<dest, part, at, sink, reply, downloads, powerCuts>>

Bytes == [size : 0..Size, good : BOOLEAN]
Artifact == [size |-> Size, good |-> TRUE]

HttpError ==
    {"None", "Transport", "WriteFailed", "TooLarge", "HttpStatus", "SizeMismatch",
     "DigestMismatch", "InsecureUrl", "Internal"}

DownloadInit ==
    /\ dest = NoFile /\ part = NoFile /\ at = "idle"
    /\ sink = [written |-> 0, good |-> TRUE, failed |-> FALSE]
    /\ reply = "None" /\ downloads = 0 /\ powerCuts = 0

\* The partial file is opened for writing, which empties it.
Open ==
    /\ at = "idle" /\ downloads < MaxDownloads
    /\ downloads' = downloads + 1
    /\ part' = [size |-> 0, good |-> TRUE]
    /\ sink' = [written |-> 0, good |-> TRUE, failed |-> FALSE]
    /\ at' = "transfer"
    /\ UNCHANGED <<dest, reply, powerCuts>>

\* The early returns: a URL that is not https, no curl handle, or a partial file
\* that cannot be opened; an older one stays.
Refused ==
    /\ at = "idle" /\ downloads < MaxDownloads
    /\ downloads' = downloads + 1
    /\ reply' \in {"InsecureUrl", "Internal", "WriteFailed"}
    /\ UNCHANGED <<dest, part, at, sink, powerCuts>>

\* Mutant: the limit is looked at after the write.
Bug_Fits(n) == sink.written <= Size

\* The server may not send more than the manifest promised.
Fits(n) == sink.written + n <= Size

\* writeToFile: n bytes, right or wrong; a full card fails the write, which may
\* have stored some of them.
Receive ==
    /\ at = "transfer" /\ ~sink.failed
    /\ \E n \in 1..MaxChunk, ok \in BOOLEAN :
        \/ /\ Fits(n)
           /\ sink' = [sink EXCEPT !.written = @ + n, !.good = @ /\ ok]
           /\ part' = [size |-> part.size + n, good |-> part.good /\ ok]
        \/ /\ Fits(n)
           /\ sink' = [sink EXCEPT !.failed = TRUE]
           /\ part' \in [size : part.size..(part.size + n - 1), good : {part.good}]
        \/ /\ ~Fits(n)
           /\ sink' = [sink EXCEPT !.failed = TRUE]
           /\ UNCHANGED part
    /\ UNCHANGED <<dest, at, reply, downloads, powerCuts>>

\* Mutant: a file of the right size is taken for the right file.
Bug_Outcome(transport, flushed, status) ==
    IF transport \/ sink.failed \/ ~flushed THEN "WriteFailed"
    ELSE IF ~status THEN "HttpStatus"
    ELSE IF sink.written # Size THEN "SizeMismatch"
    ELSE "None"

\* The order of the checks when the transfer is over.  curl reports a write
\* callback that refused as a transport error.
Outcome(transport, flushed, status) ==
    IF sink.failed THEN (IF sink.written >= Size THEN "TooLarge" ELSE "WriteFailed")
    ELSE IF transport THEN "Transport"
    ELSE IF ~flushed THEN "WriteFailed"
    ELSE IF ~status THEN "HttpStatus"
    ELSE IF sink.written # Size THEN "SizeMismatch"
    ELSE IF ~sink.good THEN "DigestMismatch"
    ELSE "None"

\* The transfer ends: complete, cut short, timed out, aborted by the user.  What
\* is not exactly the published file is discarded, if the card lets it.
Completed ==
    /\ at = "transfer"
    /\ \E transport, flushed, status \in BOOLEAN :
        LET outcome == Outcome(transport, flushed, status)
        IN /\ reply' = outcome
           /\ at' = IF outcome = "None" THEN "clear" ELSE "idle"
           /\ part' \in IF outcome = "None" THEN {part} ELSE {part, NoFile}
    /\ UNCHANGED <<dest, sink, downloads, powerCuts>>

\* FatFs cannot rename onto an existing file; a failed deletion fails the rename.
Clear ==
    /\ at = "clear"
    /\ dest' \in {NoFile, dest}
    /\ at' = "move"
    /\ UNCHANGED <<part, sink, reply, downloads, powerCuts>>

Move ==
    /\ at = "move"
    /\ \/ dest = NoFile /\ dest' = part /\ part' = NoFile /\ UNCHANGED reply
       \/ reply' = "WriteFailed" /\ UNCHANGED dest /\ part' \in {NoFile, part}
    /\ at' = "idle"
    /\ UNCHANGED <<sink, downloads, powerCuts>>

\* What stdio had not written yet is lost.
Cut ==
    /\ at # "idle" /\ powerCuts < MaxCuts
    /\ powerCuts' = powerCuts + 1
    /\ IF at = "transfer"
       THEN \E n \in 0..part.size : part' = [part EXCEPT !.size = n]
       ELSE UNCHANGED part
    /\ at' = "idle"
    /\ UNCHANGED <<dest, sink, reply, downloads>>

DownloadNext == Open \/ Refused \/ Receive \/ Completed \/ Clear \/ Move \/ Cut

DownloadSpec == DownloadInit /\ [][DownloadNext]_downloadVars

-----------------------------------------------------------------------------

\* Whatever the server sends, the card fails to store or a power cut leaves, the
\* name anything else acts on is the published file or nothing, and a download
\* that reports success has put it there.
OnlyVerifiedIsNamed ==
    /\ dest \in {NoFile, Artifact}
    /\ at = "idle" /\ downloads > 0 /\ powerCuts = 0 /\ reply = "None" => dest = Artifact

\* The partial file never takes more of the card than the manifest promised, and
\* a download that succeeds leaves none behind.
PartialIsBounded ==
    /\ part # NoFile => part.size <= Size
    /\ at = "idle" /\ powerCuts = 0 /\ reply = "None" => part = NoFile
=============================================================================
