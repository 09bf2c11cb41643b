---------------------------- MODULE DapTransfer ----------------------------
(***************************************************************************)
(* DAP_Transfer and DAP_TransferBlock of src/applications/free-dap/dap.c:  *)
(* the parsing of the request, the accesses to the target, posted reads,   *)
(* value matching, and the building of the response.  A step goes from one *)
(* access to the target to the next.                                       *)
(*                                                                         *)
(* Data words are represented by the transfer they belong to: the read     *)
(* with number t of a request returns the token t.  Token 0 is any other   *)
(* word: one left from before, received with an error, or never assigned.  *)
(* dap_abort is left out: its only writer, dap_filter_request, has no      *)
(* caller, so it is false throughout.                                      *)
(***************************************************************************)
EXTENDS Integers, Sequences

CONSTANTS
    MaxRequests,   \* bound: transfers of one request
    RetryCounts,   \* values the host gives to dap_retry_count
    MatchCounts,   \* values the host gives to dap_match_retry_count
    RequestBytes,  \* bytes of the request buffer after command, index and count
    MaxWords       \* words that fit in the response buffer

ASSUME TransferAssumption ==
    /\ MaxRequests \in Nat
    /\ RetryCounts \subseteq Nat
    /\ MatchCounts \subseteq Nat
    /\ RequestBytes \in Nat /\ RequestBytes >= 2
    /\ MaxWords \in Nat

(***************************************************************************)
(* The kinds of transfer: a write, a write of the match mask, reads of the *)
(* debug port and of an access port, and the same with a value to match.   *)
(* "rdbuff" is the read of RDBUFF that the probe adds by itself.           *)
(***************************************************************************)
Kinds == {"write", "mask", "dpRead", "apRead", "dpMatch", "apMatch"}
BlockKinds == {"write", "dpRead", "apRead"}
IsMatch(k) == k \in {"dpMatch", "apMatch"}
IsPlainRead(k) == k \in {"dpRead", "apRead"}

VARIABLES
    dap_port,      \* "disabled", "swd" or "jtag"
    pc,            \* where the handler is
    req,           \* the transfers of the request, as the host meant them
    room,          \* bytes of the request that are not parsed yet
    buf_error,     \* dap_buf_error
    i,             \* the loop variable of dap_transfer_block
    kind,          \* request: the transfer the handler is at
    posted_read,
    verify_write,
    ack,           \* ack, without its DAP_TRANSFER_MISMATCH bit
    mismatch,      \* that bit
    data,          \* the token of data
    equal,         \* (data & dap_match_mask) == match_value, once that is read
    matches,       \* rounds left in the loop of a value match
    resp_count,    \* response: the transfers counted
    words,         \* response: the tokens of the data words
    dap_retry_count,
    dap_match_retry_count,
    tries,         \* rounds of dap_transfer_word answered with WAIT so far
    posted,        \* target: the token of the last posted read
    written,       \* target: the tokens of the writes it has accepted
    astray,        \* history: the parser has lost the boundaries of the request
    unposted       \* history: the posting read of this value match has failed

parser == <<req, room, buf_error, kind, astray>>
reply == <<resp_count, words>>
config == <<dap_port, dap_retry_count, dap_match_retry_count>>
access == <<tries, posted, written>>
match == <<mismatch, matches, unposted>>
flags == <<posted_read, verify_write>>

vars == <<pc, parser, i, flags, ack, data, equal, match, reply, config, access>>

\* The operations whose result the target keeps for the next read.
IsPosted(k) ==
    k \in IF dap_port = "swd" THEN {"apRead", "apMatch"}
          ELSE {"dpRead", "apRead", "dpMatch", "apMatch"}

\* dap_needs_posted_read
\* Mutant: reads are taken to bring their own result.
NeverPosted(k) == FALSE

NeedsPosted(k) ==
    /\ k \notin {"write", "mask"}
    /\ dap_port = "swd" => k \in {"apRead", "apMatch"}

Tokens == 0 .. MaxRequests

RequestTypeOK ==
    /\ dap_port \in {"disabled", "swd", "jtag"}
    /\ pc \in {"idle", "done", "loop", "posted", "match", "matching", "post",
               "direct", "write", "after", "block", "verify"}
    /\ req \in Seq(Kinds) /\ Len(req) <= MaxRequests
    /\ room \in 0 .. RequestBytes
    /\ kind \in Kinds
    /\ i \in 0 .. MaxRequests + 1
    /\ ack \in {"INVALID", "OK", "WAIT", "FAULT", "ERROR", "PROTOCOL"}
    /\ {buf_error, posted_read, verify_write, mismatch, equal, astray, unposted}
            \subseteq BOOLEAN
    /\ {data, posted} \subseteq Tokens
    /\ \E m \in MatchCounts : matches \in 0 .. m
    /\ resp_count \in 0 .. MaxRequests
    /\ words \in Seq(Tokens) /\ Len(words) <= MaxWords
    /\ dap_retry_count \in RetryCounts
    /\ dap_match_retry_count \in MatchCounts
    /\ written \in Seq(Tokens)

TypeOK ==
    /\ RequestTypeOK
    /\ tries \in Nat
    /\ tries = 0 \/ tries < dap_retry_count

\* dap_init gives both counts the value 100; here the host has already set them.
Init ==
    /\ dap_port = "disabled"
    /\ pc = "idle"
    /\ req = <<>> /\ room = 0 /\ buf_error = FALSE /\ kind = "write" /\ i = 0
    /\ posted_read = FALSE /\ verify_write = FALSE
    /\ ack = "INVALID" /\ mismatch = FALSE
    /\ data = 0 /\ equal = FALSE /\ matches = 0
    /\ resp_count = 0 /\ words = <<>>
    /\ dap_retry_count \in RetryCounts /\ dap_match_retry_count \in MatchCounts
    /\ tries = 0 /\ posted = 0 /\ written = <<>>
    /\ astray = FALSE /\ unposted = FALSE

(***************************************************************************)
(* The buffers.                                                            *)
(***************************************************************************)

\* dap_req_get_byte / _word: past the end of the request the result is 0.
CanGet(n) == ~buf_error /\ room >= n

GetWord ==
    /\ room' = IF CanGet(4) THEN room - 4 ELSE room
    /\ buf_error' = ~CanGet(4)
    /\ astray' = (astray \/ ~CanGet(4))

\* dap_resp_add_word
\* Mutant: the space is not checked.
AddWordUnchecked(t) == words' = Append(words, t) /\ UNCHANGED buf_error

AddWord(t) ==
    IF buf_error \/ Len(words) >= MaxWords
    THEN buf_error' = TRUE /\ UNCHANGED words
    ELSE words' = Append(words, t) /\ UNCHANGED buf_error

(***************************************************************************)
(* dap_transfer_word: up to dap_retry_count times dap_swd_operation or     *)
(* dap_jtag_operation, as long as the answer is WAIT.                      *)
(***************************************************************************)

\* The answers it can return for operation k; WAIT only if that was the last
\* round.  Only the reads of the serial wire carry a parity bit; on JTAG OK and FAULT
\* look the same, and all but OK and WAIT is INVALID.
Answers(k) ==
    IF dap_retry_count = 0 THEN {"INVALID"}
    ELSE (IF tries + 1 < dap_retry_count THEN {} ELSE {"WAIT"})
            \cup (IF dap_port = "jtag" THEN {"OK", "INVALID"}
                  ELSE {"OK", "FAULT", "PROTOCOL"}
                          \cup (IF k \in {"write", "mask"} THEN {} ELSE {"ERROR"}))

\* Whether the target has accepted an operation that was answered with a; the
\* probe cannot know if the answer is no valid one.
Accepted(a) ==
    IF a \in {"OK", "ERROR"} THEN {TRUE}
    ELSE IF a \in {"WAIT", "FAULT"} \/ dap_retry_count = 0 THEN {FALSE}
    ELSE BOOLEAN

\* The word that read k, with token t, brings: a posted read brings the result of
\* the one before.
Returned(k, t) == IF IsPosted(k) \/ k = "rdbuff" THEN posted ELSE t

\* Operation k with token t is answered with a; the word read is stored in data
\* if store.
Word(k, t, store, a) ==
    /\ tries' = 0
    /\ \E accepted \in Accepted(a) :
          /\ posted' = IF ~accepted THEN posted
                       ELSE IF IsPosted(k) THEN t
                       ELSE IF k = "rdbuff" /\ dap_port = "jtag" THEN 0
                       ELSE posted
          /\ written' = IF accepted /\ k = "write" THEN Append(written, t) ELSE written
    /\ data' = IF ~store \/ a \notin {"OK", "ERROR"} THEN data
               ELSE IF a = "OK" THEN Returned(k, t) ELSE 0

\* The handler is at an operation.
Operating ==
    \/ pc \in {"posted", "post", "direct", "block", "verify"}
    \/ pc = "match" /\ NeedsPosted(kind)
    \/ pc = "matching" /\ matches > 0
    \/ pc = "write" /\ kind # "mask"
    \/ pc = "after" /\ ack = "OK" /\ ~mismatch /\ (posted_read \/ verify_write)

\* One round of the loop that is answered with WAIT and not the last.
\* Mutant: the number of rounds has no limit (and is counted modulo 2).
RetryForever ==
    /\ Operating
    /\ tries' = 1 - tries
    /\ UNCHANGED <<pc, parser, i, flags, ack, data, equal, match, reply, config, posted, written>>

Retry ==
    /\ Operating
    /\ tries + 1 < dap_retry_count
    /\ tries' = tries + 1
    /\ UNCHANGED <<pc, parser, i, flags, ack, data, equal, match, reply, config, posted, written>>

\* The token of the transfer that the loop of dap_transfer is at.
Token == IF astray THEN 0 ELSE resp_count + 1

(***************************************************************************)
(* dap_transfer.                                                           *)
(***************************************************************************)

\* The way into the loop; dap_select_device has found the device.
Transfer(r) ==
    /\ pc = "idle"
    /\ dap_port # "disabled"
    /\ pc' = "loop"
    /\ req' = r
    /\ room' = RequestBytes
    /\ UNCHANGED <<buf_error, kind, astray, i, flags, ack, data, equal, match,
                   reply, config, access>>

\* Where the loop goes with a transfer of kind k.
Label(k) == IF IsMatch(k) THEN "match"
            ELSE IF ~IsPlainRead(k) THEN "write"
            ELSE IF NeedsPosted(k) THEN "post" ELSE "direct"

\* The kinds that dap_req_get_byte can yield: 0, a write, past the end, and
\* anything once the parser has taken data for a request.
Parsed ==
    IF ~CanGet(1) THEN {"write"}
    ELSE IF astray THEN Kinds
    ELSE {req[resp_count + 1]}

\* The head of the loop.
Loop ==
    /\ pc = "loop"
    /\ IF resp_count < Len(req) /\ ~buf_error
         THEN /\ kind' \in Parsed
              /\ room' = IF CanGet(1) THEN room - 1 ELSE room
              /\ buf_error' = ~CanGet(1)
              /\ astray' = (astray \/ ~CanGet(1))
              /\ verify_write' = FALSE
              /\ equal' = FALSE
              /\ pc' = IF posted_read THEN "posted" ELSE Label(kind')
         ELSE pc' = "after" /\ UNCHANGED <<parser, verify_write, equal>>
    /\ UNCHANGED <<req, i, posted_read, ack, data, match, reply, config, access>>

\* A read is pending: its word comes with the next posted read or with RDBUFF.
\* Only after RDBUFF does the transfer itself follow; after a posted read it is
\* done, a match value not being parsed.
Posted ==
    /\ pc = "posted"
    /\ posted_read' = NeedsPosted(kind)
    /\ LET k == IF NeedsPosted(kind) THEN kind ELSE "rdbuff"
       IN  \E a \in Answers(k) : Word(k, Token, TRUE, a) /\ ack' = a
    /\ IF ack' = "OK"
         THEN /\ AddWord(data')
              /\ pc' = IF posted_read' THEN "loop" ELSE Label(kind)
              /\ resp_count' = IF posted_read' THEN resp_count + 1 ELSE resp_count
              /\ astray' = (astray \/ (posted_read' /\ IsMatch(kind)))
         ELSE pc' = "after" /\ UNCHANGED <<buf_error, reply, astray>>
    /\ UNCHANGED <<req, room, kind, i, verify_write, equal, match, config>>

\* DAP_TRANSFER_MATCH_VALUE: the value, and the posting read, whose answer is
\* not looked at.
Match ==
    /\ pc = "match"
    /\ GetWord
    /\ IF NeedsPosted(kind)
         THEN \E a \in Answers(kind) :
                 Word(kind, Token, FALSE, a) /\ unposted' = (a # "OK")
         ELSE unposted' = FALSE /\ UNCHANGED <<data, access>>
    /\ equal' \in BOOLEAN
    /\ matches' = dap_match_retry_count
    /\ pc' = "matching"
    /\ UNCHANGED <<req, kind, i, flags, ack, mismatch, reply, config>>

\* One round of the loop that reads until the value matches.
Matching ==
    /\ pc = "matching"
    /\ matches > 0
    /\ \E a \in Answers(kind) : Word(kind, Token, TRUE, a) /\ ack' = a
    /\ equal' \in IF ack' \in {"OK", "ERROR"} THEN BOOLEAN ELSE {equal}
    /\ matches' = IF ack' = "OK" /\ ~equal' THEN matches - 1 ELSE 0
    /\ UNCHANGED <<pc, parser, i, flags, mismatch, unposted, reply, config>>

\* After that loop.
Matched ==
    /\ pc = "matching"
    /\ matches = 0
    /\ mismatch' = ~equal
    /\ IF ack = "OK" /\ equal
         THEN pc' = "loop" /\ resp_count' = resp_count + 1
         ELSE pc' = "after" /\ UNCHANGED resp_count
    /\ UNCHANGED <<parser, i, flags, ack, data, equal, matches, unposted, words,
                   config, access>>

\* The first read of a chain of posted reads.
Post ==
    /\ pc = "post"
    /\ \E a \in Answers(kind) : Word(kind, Token, FALSE, a) /\ ack' = a
    /\ IF ack' = "OK"
         THEN pc' = "loop" /\ posted_read' = TRUE /\ resp_count' = resp_count + 1
         ELSE pc' = "after" /\ UNCHANGED <<posted_read, resp_count>>
    /\ UNCHANGED <<parser, i, verify_write, equal, match, words, config>>

\* A read that is not posted.
Direct ==
    /\ pc = "direct"
    /\ \E a \in Answers(kind) : Word(kind, Token, TRUE, a) /\ ack' = a
    /\ IF ack' = "OK"
         THEN AddWord(data') /\ pc' = "loop" /\ resp_count' = resp_count + 1
         ELSE pc' = "after" /\ UNCHANGED <<buf_error, reply>>
    /\ UNCHANGED <<req, room, kind, astray, i, flags, equal, match, config>>

\* A write, or the match mask, which does not go to the target.
Write ==
    /\ pc = "write"
    /\ GetWord
    /\ IF kind = "mask"
         THEN ack' = "OK" /\ UNCHANGED <<data, access>>
         ELSE \E a \in Answers(kind) :
                 /\ Word(kind, IF CanGet(4) THEN Token ELSE 0, FALSE, a)
                 /\ ack' = a
    /\ IF ack' = "OK"
         THEN /\ pc' = "loop" /\ resp_count' = resp_count + 1
              /\ verify_write' = (kind = "write")
         ELSE pc' = "after" /\ UNCHANGED <<resp_count, verify_write>>
    /\ UNCHANGED <<req, kind, i, posted_read, equal, match, words, config>>

\* After the loop: the word of the last posted read, which is added whatever the
\* answer, or the confirmation of the last write.
After ==
    /\ pc = "after"
    /\ pc' = "done"
    /\ IF ack = "OK" /\ ~mismatch /\ (posted_read \/ verify_write)
         THEN /\ \E a \in Answers("rdbuff") :
                    Word("rdbuff", 0, posted_read, a) /\ ack' = a
              /\ IF posted_read THEN AddWord(data') ELSE UNCHANGED <<words, buf_error>>
         ELSE UNCHANGED <<ack, data, words, buf_error, access>>
    /\ UNCHANGED <<req, room, kind, astray, i, flags, equal, match, resp_count, config>>

(***************************************************************************)
(* dap_transfer_block.                                                     *)
(***************************************************************************)

\* The way in: n transfers of kind k, which is parsed once.
TransferBlock(k, n) ==
    /\ pc = "idle"
    /\ dap_port # "disabled"
    /\ pc' = IF n = 0 THEN "done" ELSE "block"
    /\ req' = [j \in 1 .. n |-> k]
    /\ kind' = k
    /\ room' = RequestBytes - 2
    /\ UNCHANGED <<buf_error, astray, i, flags, ack, data, equal, match, reply,
                   config, access>>

\* One round of the loop of a block read; a posted one takes a round more, whose
\* operation is RDBUFF, and has no word in its first.
BlockRead ==
    /\ pc = "block"
    /\ kind # "write"
    /\ LET rounds == IF NeedsPosted(kind) THEN Len(req) + 1 ELSE Len(req)
           k == IF i = Len(req) THEN "rdbuff" ELSE kind
       IN  /\ \E a \in Answers(k) :
                 Word(k, IF k = kind THEN i + 1 ELSE 0, TRUE, a) /\ ack' = a
           /\ pc' = IF ack' = "OK" /\ i + 1 < rounds THEN "block" ELSE "done"
    /\ IF ack' = "OK" /\ (NeedsPosted(kind) => i > 0)
         THEN AddWord(data') /\ resp_count' = resp_count + 1
         ELSE UNCHANGED <<buf_error, reply>>
    /\ i' = i + 1
    /\ UNCHANGED <<req, room, kind, astray, flags, equal, match, config>>

\* One round of the loop of a block write.
\* Mutant: the write is counted before its answer is looked at.
BlockWriteCounts ==
    /\ pc = "block"
    /\ kind = "write"
    /\ GetWord
    /\ \E a \in Answers(kind) :
          Word(kind, IF CanGet(4) THEN i + 1 ELSE 0, FALSE, a) /\ ack' = a
    /\ pc' = IF ack' # "OK" THEN "done" ELSE IF i + 1 < Len(req) THEN "block" ELSE "verify"
    /\ resp_count' = resp_count + 1
    /\ i' = i + 1
    /\ UNCHANGED <<req, kind, flags, equal, match, words, config>>

BlockWrite ==
    /\ pc = "block"
    /\ kind = "write"
    /\ GetWord
    /\ \E a \in Answers(kind) :
          Word(kind, IF CanGet(4) THEN i + 1 ELSE 0, FALSE, a) /\ ack' = a
    /\ IF ack' = "OK"
         THEN /\ pc' = IF i + 1 < Len(req) THEN "block" ELSE "verify"
              /\ resp_count' = resp_count + 1
         ELSE pc' = "done" /\ UNCHANGED resp_count
    /\ i' = i + 1
    /\ UNCHANGED <<req, kind, flags, equal, match, words, config>>

\* The confirmation of the last write of a block.
BlockVerify ==
    /\ pc = "verify"
    /\ \E a \in Answers("rdbuff") : Word("rdbuff", 0, FALSE, a) /\ ack' = a
    /\ pc' = "done"
    /\ UNCHANGED <<parser, i, flags, equal, match, reply, config>>

\* The response is sent; nothing of the request is left.  (posted and written only
\* say which access belongs to the request.)
Respond ==
    /\ pc = "done"
    /\ pc' = "idle"
    /\ req' = <<>> /\ room' = 0 /\ buf_error' = FALSE /\ kind' = "write" /\ i' = 0
    /\ posted_read' = FALSE /\ verify_write' = FALSE
    /\ ack' = "INVALID" /\ mismatch' = FALSE
    /\ data' = 0 /\ equal' = FALSE /\ matches' = 0
    /\ resp_count' = 0 /\ words' = <<>>
    /\ tries' = 0 /\ posted' = 0 /\ written' = <<>>
    /\ astray' = FALSE /\ unposted' = FALSE
    /\ UNCHANGED config

(***************************************************************************)
(* Other requests that touch the same state.                               *)
(***************************************************************************)

\* dap_select_device has refused: no port, or the index of a JTAG device that is
\* not there.  The response says 0 transfers and no valid ack.
Refused ==
    /\ pc = "idle"
    /\ dap_port # "swd"
    /\ pc' = "done"
    /\ UNCHANGED <<parser, i, flags, ack, data, equal, match, reply, config, access>>

\* dap_transfer_configure
TransferConfigure(retries, match_retries) ==
    /\ pc = "idle"
    /\ dap_retry_count' = retries
    /\ dap_match_retry_count' = match_retries
    /\ UNCHANGED <<dap_port, pc, parser, i, flags, ack, data, equal, match, reply, access>>

\* dap_connect, and dap_disconnect with p = "disabled".
Connect(p) ==
    /\ pc = "idle"
    /\ dap_port' = p
    /\ UNCHANGED <<pc, parser, i, flags, ack, data, equal, match, reply, access,
                   dap_retry_count, dap_match_retry_count>>

(***************************************************************************)
(* The specification.                                                      *)
(***************************************************************************)

\* The steps of a request that has begun.
Step ==
    \/ Retry \/ Loop \/ Posted \/ Match \/ Matching \/ Matched
    \/ Post \/ Direct \/ Write \/ After
    \/ BlockRead \/ BlockWrite \/ BlockVerify
    \/ Respond

Request ==
    \/ \E n \in 0 .. MaxRequests :
          \/ \E r \in [1 .. n -> Kinds] : Transfer(r)
          \/ \E k \in BlockKinds : TransferBlock(k, n)
    \/ Refused
    \/ \E x \in RetryCounts, y \in MatchCounts : TransferConfigure(x, y)
    \/ \E p \in {"disabled", "swd", "jtag"} : Connect(p)

Next == Step \/ Request

\* The handler runs in the USB interrupt and never waits.
Spec == Init /\ [][Next]_vars /\ WF_vars(Step)

(***************************************************************************)
(* Properties.                                                             *)
(***************************************************************************)

\* The tokens of the plain reads, and of the writes, in the first n transfers of
\* the request.
Reading == INSTANCE Iteration
               WITH Body <- LAMBDA s, r, j : IF IsPlainRead(r[j]) THEN Append(s, j) ELSE s
Writing == INSTANCE Iteration
               WITH Body <- LAMBDA s, r, j : IF r[j] = "write" THEN Append(s, j) ELSE s

PlainReads(n) == Reading!Iterated(<<>>, req, n)
Writes(n) == Writing!Iterated(<<>>, req, n)

\* The data words of the response are the words of the reads of the request, in
\* the order of the request, although a posted read brings the word of the one
\* before it.  The exception: when the last RDBUFF fails a word is added all the
\* same, under an ack that is not OK.
ReadsInOrder ==
    ~astray =>
        LET reads == PlainReads(Len(req))
        IN  /\ Len(words) <= Len(reads)
            /\ \A j \in 1 .. Len(words) :
                  \/ words[j] = reads[j]
                  \/ pc = "done" /\ ack # "OK" /\ j = Len(words)

\* A response with ack OK means that everything was done: each read has its word
\* in it, each write has reached the target, once and in order.  (Unless a buffer
\* was too small: the response does not tell.)
OKMeansDone ==
    (pc = "done" /\ ack = "OK" /\ ~mismatch /\ ~astray /\ ~buf_error) =>
        /\ resp_count = Len(req)
        /\ words = PlainReads(Len(req))
        /\ written = Writes(Len(req))

\* From the count of the response, whatever the ack, the host knows which writes
\* the target has got: those among the transfers counted, and if there was no
\* valid answer perhaps the next one.
CountTellsWrites ==
    (pc = "done" /\ ~astray) =>
        \/ written = Writes(resp_count)
        \/ /\ ack \in {"PROTOCOL", "INVALID"}
           /\ resp_count < Len(req)
           /\ written = Writes(resp_count + 1)

\* A value match that is passed was decided on a word that was read for it, not
\* on one left from an earlier read.  (It takes at least one read, and a posting
\* read that did not fail: its answer is ignored.)
MatchIsGenuine ==
    (/\ pc = "loop" /\ resp_count > 0 /\ IsMatch(kind)
     /\ ~astray /\ ~unposted /\ dap_match_retry_count > 0)
        => data = resp_count

\* The USB interrupt returns, whatever mixture of WAIT, failures and words that do
\* not match the target answers with, in each round of the loop of dap_transfer_word,
\* of the loop of a value match around it, and of the loop over the request, and
\* whatever the counts in the requests say.
HandlerReturns == pc # "idle" ~> pc = "idle"

\* free-dap/README.md:1 says that this is a CMSIS-DAP debugger: a transfer with a
\* match value is passed only when the word read has matched the value.
MatchIsCompared == (pc = "loop" /\ resp_count > 0 /\ IsMatch(kind)) => equal
=============================================================================
