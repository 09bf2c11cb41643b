-------------------------- MODULE DapTransferProofs --------------------------
(***************************************************************************)
(* Theorems about DapTransfer, for every length of a request, every retry  *)
(* count, and every size of the two buffers.                               *)
(***************************************************************************)
EXTENDS DapTransfer, SequenceTheorems, TLAPS

(***************************************************************************)
(* The inductive invariant.                                                *)
(***************************************************************************)

\* Sequence a is how b begins.
Begins(a, b) ==
    /\ Len(a) <= Len(b)
    /\ \A j \in 1 .. Len(a) : a[j] = b[j]

\* Between two requests nothing is left.
Between ==
    pc = "idle" =>
        /\ req = <<>> /\ i = 0 /\ resp_count = 0 /\ words = <<>> /\ written = <<>>
        /\ ~buf_error /\ ~astray /\ ~posted_read /\ ~mismatch
        /\ ack = "INVALID"

\* The transfer that dap_transfer is at, and where it is treated.
At ==
    /\ resp_count <= Len(req)
    /\ pc \in {"posted", "match", "matching", "post", "direct", "write"} =>
          /\ resp_count < Len(req)
          /\ astray \/ kind = req[resp_count + 1]
    /\ pc \in {"match", "matching"} => IsMatch(kind)
    /\ pc = "post" => IsPlainRead(kind) /\ NeedsPosted(kind)
    /\ pc = "direct" => IsPlainRead(kind) /\ ~NeedsPosted(kind)
    /\ pc = "write" => kind \in {"write", "mask"}
    /\ pc \in {"match", "matching", "post", "direct", "write", "block", "verify"} => ~posted_read
    /\ pc = "posted" => posted_read
    /\ (pc = "after" /\ ack = "OK" /\ ~mismatch /\ ~buf_error) => resp_count = Len(req)

\* The rounds of dap_transfer_block; a posted read is a round late.
InBlock ==
    /\ pc \in {"block", "verify"} => \A j \in 1 .. Len(req) : req[j] = kind
    /\ pc = "block" =>
          /\ kind \in BlockKinds
          /\ IF NeedsPosted(kind)
               THEN /\ Len(req) > 0 /\ i <= Len(req)
                    /\ resp_count = IF i = 0 THEN 0 ELSE i - 1
                    /\ i > 0 => posted = i
               ELSE i < Len(req) /\ resp_count = i
    /\ pc = "verify" => kind = "write" /\ resp_count = Len(req)

\* Nothing has failed so far.
Live ==
    \/ pc \in {"loop", "posted", "match", "matching", "post", "direct", "write", "block", "verify"}
    \/ pc = "after" /\ ack = "OK" /\ ~mismatch

\* The transfers whose words are in the response: all that are counted, but for
\* the last one if it is a posted read.
Told == IF posted_read THEN resp_count - 1 ELSE resp_count

Answered ==
    /\ Begins(words, PlainReads(Told))
    /\ buf_error \/ words = PlainReads(Told)
    /\ posted_read => /\ resp_count > 0
                      /\ IsPlainRead(req[resp_count])
                      /\ posted = resp_count

ReadsSoFar ==
    ~astray =>
        /\ Live => Answered
        /\ pc = "after" => Begins(words, PlainReads(resp_count))

WritesSoFar ==
    (~astray /\ pc # "done") =>
        \/ written = Writes(resp_count)
        \/ /\ pc = "after"
           /\ ack \in {"PROTOCOL", "INVALID"}
           /\ resp_count < Len(req)
           /\ written = Writes(resp_count + 1)

\* In the loop of a value match the word that was posted is that of the transfer,
\* and after a round the word read is.
OwnWord ==
    (pc = "matching" /\ ~astray /\ ~unposted) =>
        /\ (matches > 0 /\ NeedsPosted(kind)) => posted = resp_count + 1
        /\ (ack = "OK" /\ matches < dap_match_retry_count) => data = resp_count + 1

IInv ==
    /\ RequestTypeOK
    /\ Between /\ At /\ InBlock
    /\ ReadsSoFar /\ WritesSoFar /\ OwnWord
    /\ ReadsInOrder /\ OKMeansDone /\ CountTellsWrites /\ MatchIsGenuine
(***************************************************************************)
(* Lemmas about the operators.                                             *)
(***************************************************************************)

LEMMA BeginsItself ==
  ASSUME NEW S, NEW a \in Seq(S)
  PROVE  Begins(a, a)
BY DEF Begins

LEMMA BeginsLonger ==
  ASSUME NEW a, NEW b, NEW c, Len(a) \in Nat, Len(b) \in Nat, Len(c) \in Nat,
         Begins(a, b), Begins(b, c)
  PROVE  Begins(a, c)
BY DEF Begins

LEMMA BeginsAppend ==
  ASSUME NEW S, NEW a \in Seq(S), NEW e \in S
  PROVE  Begins(a, Append(a, e))
<1>1. Len(a) \in Nat
  BY LenProperties
<1>. QED
  BY <1>1, AppendProperties DEF Begins

\* A list that grows by its index or stays: what it is after n rounds, and that
\* it goes on as it began.
LEMMA ReadsUnrolled ==
  ASSUME NEW r
  PROVE  /\ Reading!Iterated(<<>>, r, 0) = <<>>
         /\ \A n \in Nat :
               Reading!Iterated(<<>>, r, n + 1) =
                  IF IsPlainRead(r[n + 1]) THEN Append(Reading!Iterated(<<>>, r, n), n + 1)
                  ELSE Reading!Iterated(<<>>, r, n)
BY Reading!Unrolled

LEMMA WritesUnrolled ==
  ASSUME NEW r
  PROVE  /\ Writing!Iterated(<<>>, r, 0) = <<>>
         /\ \A n \in Nat :
               Writing!Iterated(<<>>, r, n + 1) =
                  IF r[n + 1] = "write" THEN Append(Writing!Iterated(<<>>, r, n), n + 1)
                  ELSE Writing!Iterated(<<>>, r, n)
BY Writing!Unrolled

LEMMA ReadsGrow ==
  ASSUME NEW r, NEW n \in Nat
  PROVE  /\ Reading!Iterated(<<>>, r, n) \in Seq(Nat)
         /\ \A m \in 0 .. n :
               Begins(Reading!Iterated(<<>>, r, m), Reading!Iterated(<<>>, r, n))
<1>. DEFINE R(m) == Reading!Iterated(<<>>, r, m)
            T == {m \in Nat : \A k \in 0 .. m : R(k) \in Seq(Nat) /\ Begins(R(k), R(m))}
<1>1. /\ R(0) = <<>>
      /\ \A m \in Nat : R(m + 1) \in {R(m), Append(R(m), m + 1)}
  BY ReadsUnrolled
<1>. HIDE DEF R
<1>2. 0 \in T
  <2>1. R(0) \in Seq(Nat)
    BY <1>1, EmptySeq
  <2>2. Begins(R(0), R(0))
    BY <2>1, BeginsItself
  <2>. QED
    BY <2>1, <2>2
<1>3. ASSUME NEW m \in T PROVE m + 1 \in T
  <2>1. /\ m \in Nat /\ R(m) \in Seq(Nat)
        /\ \A k \in 0 .. m : R(k) \in Seq(Nat) /\ Begins(R(k), R(m))
    OBVIOUS
  <2>2. R(m + 1) \in Seq(Nat) /\ Begins(R(m), R(m + 1))
    <3>1. CASE R(m + 1) = R(m)
      BY <2>1, <3>1, BeginsItself
    <3>2. CASE R(m + 1) = Append(R(m), m + 1)
      <4>1. m + 1 \in Nat
        BY <2>1
      <4>2. Append(R(m), m + 1) \in Seq(Nat)
        BY <2>1, <4>1, AppendProperties
      <4>3. Begins(R(m), Append(R(m), m + 1))
        BY <2>1, <4>1, BeginsAppend
      <4>. QED
        BY <3>2, <4>2, <4>3
    <3>. QED
      BY <1>1, <2>1, <3>1, <3>2
  <2>3. ASSUME NEW k \in 0 .. m + 1 PROVE R(k) \in Seq(Nat) /\ Begins(R(k), R(m + 1))
    <3>1. CASE k = m + 1
      BY <2>2, <3>1, BeginsItself
    <3>2. CASE k \in 0 .. m
      BY <2>1, <2>2, <3>2, BeginsLonger, LenProperties
    <3>. QED
      BY <2>1, <3>1, <3>2
  <2>4. m + 1 \in Nat
    BY <2>1
  <2>. HIDE DEF T
  <2>. QED
    BY <2>2, <2>3, <2>4 DEF T
<1>4. T \in SUBSET Nat
  OBVIOUS
<1>. HIDE DEF T
<1>5. T = Nat
  BY <1>2, <1>3, <1>4, Reading!Induction
<1>. QED
  BY <1>5 DEF T, R

\* What dap_transfer_word leaves behind.
LEMMA WordDone ==
  ASSUME RequestTypeOK, NEW k \in Kinds \cup {"rdbuff"}, NEW t \in Tokens, NEW store \in BOOLEAN,
         NEW a \in Answers(k), Word(k, t, store, a)
  PROVE  /\ a \in {"INVALID", "OK", "WAIT", "FAULT", "ERROR", "PROTOCOL"}
         /\ posted' \in Tokens /\ data' \in Tokens /\ written' \in Seq(Tokens)
         /\ k # "write" => written' = written
         /\ k = "write" =>
               IF a = "OK" THEN written' = Append(written, t)
               ELSE \/ written' = written
                    \/ a \in {"PROTOCOL", "INVALID"} /\ written' = Append(written, t)
         /\ (a = "OK" /\ IsPosted(k)) => posted' = t
         /\ (a = "OK" /\ store) => data' = Returned(k, t)
<1>1. /\ a \in {"INVALID", "OK", "WAIT", "FAULT", "ERROR", "PROTOCOL"}
      /\ k = "write" => a # "ERROR"
  BY DEF Answers
<1>2. PICK accepted \in Accepted(a) :
         /\ posted' = IF ~accepted THEN posted
                      ELSE IF IsPosted(k) THEN t
                      ELSE IF k = "rdbuff" /\ dap_port = "jtag" THEN 0
                      ELSE posted
         /\ written' = IF accepted /\ k = "write" THEN Append(written, t) ELSE written
  BY DEF Word
<1>3. /\ a = "OK" => accepted = TRUE
      /\ a \in {"WAIT", "FAULT"} => accepted = FALSE
      /\ accepted \in BOOLEAN
  BY <1>1, <1>2 DEF Accepted
<1>4. posted \in Tokens /\ data \in Tokens /\ written \in Seq(Tokens) /\ 0 \in Tokens
  BY TransferAssumption DEF RequestTypeOK, Tokens
<1>5. Append(written, t) \in Seq(Tokens)
  BY <1>4, AppendProperties
<1>6. Returned(k, t) \in Tokens
  BY <1>4 DEF Returned
<1>7. data' \in {Returned(k, t), 0, data} /\ ((a = "OK" /\ store) => data' = Returned(k, t))
  BY DEF Word
<1>. QED
  BY <1>1, <1>2, <1>3, <1>4, <1>5, <1>6, <1>7

LEMMA Posts ==
  ASSUME RequestTypeOK, NEW k \in Kinds
  PROVE  /\ NeedsPosted(k) => IsPosted(k)
         /\ (IsPosted(k) /\ k \notin {"write", "mask"}) => NeedsPosted(k)
         /\ NeedsPosted(k) \in BOOLEAN
         /\ IsPlainRead(k) => k # "write" /\ ~IsMatch(k)
         /\ IsMatch(k) => k # "write" /\ k # "mask"
BY DEF NeedsPosted, IsPosted, IsPlainRead, IsMatch, Kinds, RequestTypeOK

LEMMA Sizes ==
  ASSUME RequestTypeOK
  PROVE  /\ Len(req) \in Nat /\ Len(req) <= MaxRequests /\ MaxRequests \in Nat
         /\ resp_count \in Nat /\ resp_count <= MaxRequests /\ i \in Nat
         /\ Len(words) \in Nat /\ Len(words) <= MaxWords /\ MaxWords \in Nat
         /\ Tokens \subseteq Nat /\ 0 \in Tokens
         /\ matches \in Nat /\ dap_match_retry_count \in Nat
         /\ kind \in Kinds
BY TransferAssumption, LenProperties DEF RequestTypeOK, Tokens

\* A request that holds a word, and one that does not.
LEMMA WordGot ==
  ASSUME RequestTypeOK, GetWord
  PROVE  /\ room' \in 0 .. RequestBytes /\ buf_error' \in BOOLEAN /\ astray' \in BOOLEAN
         /\ ~astray' => ~astray /\ ~buf_error /\ ~buf_error' /\ CanGet(4)
<1>1. room' \in 0 .. RequestBytes
  BY TransferAssumption DEF GetWord, CanGet, RequestTypeOK
<1>2. /\ buf_error' = ~CanGet(4)
      /\ astray' = (astray \/ ~CanGet(4))
  BY DEF GetWord
<1>3. CanGet(4) => ~buf_error
  BY DEF CanGet
<1>. QED
  BY <1>1, <1>2, <1>3, Zenon

\* What the response holds after dap_resp_add_word.
LEMMA WordAdded ==
  ASSUME RequestTypeOK, NEW t \in Tokens, AddWord(t)
  PROVE  /\ words' \in Seq(Tokens) /\ Len(words') <= MaxWords
         /\ buf_error => buf_error' /\ words' = words
         /\ \A R \in Seq(Nat) :
               (Begins(words, R) /\ (buf_error \/ words = R)) =>
                  /\ Begins(words', Append(R, t))
                  /\ buf_error' \/ words' = Append(R, t)
<1>1. words \in Seq(Tokens) /\ Len(words) \in Nat /\ MaxWords \in Nat /\ t \in Nat
  BY Sizes DEF RequestTypeOK
<1>2. CASE buf_error \/ Len(words) >= MaxWords
  <2>1. buf_error' = TRUE /\ words' = words
    BY <1>2 DEF AddWord
  <2>2. ASSUME NEW R \in Seq(Nat), Begins(words, R) PROVE Begins(words, Append(R, t))
    <3>1. Append(R, t) \in Seq(Nat)
      BY <1>1, AppendProperties
    <3>2. Len(R) \in Nat /\ Len(Append(R, t)) \in Nat
      BY <3>1, LenProperties
    <3>. QED
      BY <1>1, <2>2, <3>2, BeginsAppend, BeginsLonger
  <2>. QED
    BY <2>1, <2>2 DEF RequestTypeOK
<1>3. CASE ~(buf_error \/ Len(words) >= MaxWords)
  <2>1. words' = Append(words, t) /\ ~buf_error
    BY <1>3 DEF AddWord
  <2>2. words' \in Seq(Tokens) /\ Len(words') = Len(words) + 1
    BY <1>1, <2>1, AppendProperties
  <2>3. ASSUME NEW R \in Seq(Nat), words = R PROVE Begins(words', Append(R, t))
    <3>1. Append(R, t) \in Seq(Nat)
      BY <1>1, AppendProperties
    <3>. QED
      BY <2>1, <2>3, <3>1, BeginsItself
  <2>. QED
    BY <1>1, <1>3, <2>1, <2>2, <2>3
<1>. QED
  BY <1>2, <1>3

\* The properties of a response are about a request that is done.
UnderWay ==
    pc \in {"loop", "posted", "match", "matching", "post", "direct", "write", "after",
            "block", "verify"}

LEMMA Middle ==
  RequestTypeOK /\ At /\ ReadsSoFar /\ UnderWay
     => Between /\ ReadsInOrder /\ OKMeansDone /\ CountTellsWrites
<1>. SUFFICES ASSUME RequestTypeOK, At, ReadsSoFar, UnderWay
              PROVE  Between /\ ReadsInOrder /\ OKMeansDone /\ CountTellsWrites
  OBVIOUS
<1>1. /\ Len(req) \in Nat /\ resp_count \in Nat /\ resp_count <= Len(req)
      /\ Len(words) \in Nat
  BY Sizes DEF At
<1>2. ASSUME ~astray PROVE Begins(words, PlainReads(Len(req)))
  <2>1. PICK m \in 0 .. Len(req) : Begins(words, PlainReads(m))
    <3>1. CASE pc = "after"
      BY <1>1, <1>2, <3>1 DEF ReadsSoFar, Answered
    <3>2. CASE pc # "after"
      <4>1. Live
        BY <3>2 DEF Live, UnderWay
      <4>2. Told \in 0 .. Len(req)
        BY <1>1, <1>2, <4>1 DEF ReadsSoFar, Told, Answered
      <4>. QED
        BY <1>2, <4>1, <4>2 DEF ReadsSoFar, Answered
    <3>. QED
      BY <3>1, <3>2
  <2>2. /\ PlainReads(m) \in Seq(Nat) /\ PlainReads(Len(req)) \in Seq(Nat)
        /\ Begins(PlainReads(m), PlainReads(Len(req)))
    BY <1>1, ReadsGrow DEF PlainReads
  <2>. QED
    BY <1>1, <2>1, <2>2, BeginsLonger, LenProperties
<1>3. ReadsInOrder
  BY <1>2 DEF ReadsInOrder, Begins
<1>4. OKMeansDone /\ CountTellsWrites /\ Between
  BY DEF OKMeansDone, CountTellsWrites, Between, UnderWay
<1>. QED
  BY <1>3, <1>4

LEMMA MiddleNext ==
  ASSUME RequestTypeOK', At', ReadsSoFar', UnderWay'
  PROVE  Between' /\ ReadsInOrder' /\ OKMeansDone' /\ CountTellsWrites'
BY Middle, PTL

\* RequestTypeOK is about flags and about the rest.
Flags ==
    /\ buf_error \in BOOLEAN /\ posted_read \in BOOLEAN /\ verify_write \in BOOLEAN
    /\ mismatch \in BOOLEAN /\ equal \in BOOLEAN /\ astray \in BOOLEAN /\ unposted \in BOOLEAN

Values ==
    /\ dap_port \in {"disabled", "swd", "jtag"}
    /\ pc \in {"idle", "done", "loop", "posted", "match", "matching", "post",
               "direct", "write", "after", "block", "verify"}
    /\ req \in Seq(Kinds) /\ Len(req) <= MaxRequests
    /\ room \in 0 .. RequestBytes
    /\ kind \in Kinds
    /\ i \in 0 .. MaxRequests + 1
    /\ ack \in {"INVALID", "OK", "WAIT", "FAULT", "ERROR", "PROTOCOL"}
    /\ data \in Tokens /\ posted \in Tokens
    /\ \E m \in MatchCounts : matches \in 0 .. m
    /\ resp_count \in 0 .. MaxRequests
    /\ words \in Seq(Tokens) /\ Len(words) <= MaxWords
    /\ dap_retry_count \in RetryCounts
    /\ dap_match_retry_count \in MatchCounts
    /\ written \in Seq(Tokens)

LEMMA TypeParts == RequestTypeOK <=> Flags /\ Values
<1>1. {buf_error, posted_read, verify_write, mismatch, equal, astray, unposted}
            \subseteq BOOLEAN <=> Flags
  BY Zenon DEF Flags
<1>2. {data, posted} \subseteq Tokens <=> data \in Tokens /\ posted \in Tokens
  OBVIOUS
<1>. QED
  BY <1>1, <1>2, Zenon DEF RequestTypeOK, Values

LEMMA TypeNext == Flags' /\ Values' => RequestTypeOK'
BY TypeParts, PTL

LEMMA TokenIs ==
  ASSUME RequestTypeOK, resp_count < Len(req)
  PROVE  Token \in Tokens /\ (~astray => Token = resp_count + 1)
BY Sizes DEF Token, Tokens

\* What has to be known of a step that goes on.
LEMMA AnsweredNext ==
  ASSUME NEW n, Told' = n, req' = req,
         Begins(words', PlainReads(n)), buf_error' \/ words' = PlainReads(n),
         posted_read' => /\ resp_count' > 0
                         /\ IsPlainRead(req[resp_count'])
                         /\ posted' = resp_count'
  PROVE  Answered'
<1>1. PlainReads(Told)' = PlainReads(n)
  BY DEF PlainReads
<1>2. Begins(words, PlainReads(Told))'
  BY <1>1
<1>3. (buf_error \/ words = PlainReads(Told))'
  BY <1>1
<1>4. (posted_read => /\ resp_count > 0
                      /\ IsPlainRead(req[resp_count])
                      /\ posted = resp_count)'
  OBVIOUS
<1>. QED
  BY <1>2, <1>3, <1>4, Zenon DEF Answered

LEMMA AnsweredBegins ==
  ASSUME RequestTypeOK, Answered
  PROVE  Begins(words, PlainReads(resp_count))
<1>1. Told \in 0 .. resp_count /\ resp_count \in Nat
  BY Sizes DEF Told, Answered
<1>2. /\ PlainReads(resp_count) \in Seq(Nat) /\ PlainReads(Told) \in Seq(Nat)
      /\ Begins(PlainReads(Told), PlainReads(resp_count))
  BY <1>1, ReadsGrow DEF PlainReads
<1>. QED
  BY <1>2, Sizes, BeginsLonger, LenProperties DEF Answered

\* What has to be known of a step that leaves the loop because of its answer.
LEMMA StopsNext ==
  ASSUME RequestTypeOK, ~astray' => Answered, pc' = "after", ~Live',
         UNCHANGED <<words, req, resp_count>>
  PROVE  ReadsSoFar'
<1>1. ASSUME ~astray' PROVE Begins(words, PlainReads(resp_count))'
  <2>1. Begins(words, PlainReads(resp_count))
    BY <1>1, AnsweredBegins
  <2>. QED
    BY <2>1 DEF PlainReads
<1>. QED
  BY <1>1 DEF ReadsSoFar

(***************************************************************************)
(* The invariant is kept: dap_transfer.                                    *)
(***************************************************************************)

LEMMA PostedKeeps == IInv /\ Posted => IInv'
<1>. SUFFICES ASSUME IInv, Posted PROVE IInv'
  OBVIOUS
<1>. DEFINE n == resp_count
            k == IF NeedsPosted(kind) THEN kind ELSE "rdbuff"
<1>1. RequestTypeOK /\ At /\ ReadsSoFar /\ WritesSoFar /\ pc = "posted"
  BY DEF IInv, Posted
<1>2. /\ posted_read /\ n < Len(req) /\ n \in Nat /\ Len(req) \in Nat
      /\ n + 1 \in 0 .. MaxRequests /\ kind \in Kinds
      /\ astray \/ kind = req[n + 1]
  BY <1>1, Sizes DEF At
<1>3. PICK a \in Answers(k) : Word(k, Token, TRUE, a) /\ ack' = a
  BY DEF Posted
<1>4. k \in Kinds \cup {"rdbuff"} /\ k # "write" /\ Token \in Tokens
  <2>1. NeedsPosted(kind) => kind # "write"
    BY DEF NeedsPosted
  <2>. QED
    BY <1>1, <1>2, <2>1, TokenIs
<1>5. /\ ack' \in {"INVALID", "OK", "WAIT", "FAULT", "ERROR", "PROTOCOL"}
      /\ posted' \in Tokens /\ data' \in Tokens /\ written' = written
      /\ (ack' = "OK" /\ IsPosted(k)) => posted' = Token
      /\ ack' = "OK" => data' = Returned(k, Token)
  BY <1>1, <1>3, <1>4, WordDone
<1>6. ack' = "OK" => data' = posted
  BY <1>1, <1>2, <1>5, Posts DEF Returned
<1>7. /\ posted_read' = NeedsPosted(kind)
      /\ UNCHANGED <<req, room, kind, i, verify_write, equal, mismatch, matches, unposted,
                     dap_port, dap_retry_count, dap_match_retry_count>>
  BY DEF Posted, match, config
<1>8. CASE ack' = "OK"
  <2>1. /\ AddWord(data')
        /\ pc' = IF posted_read' THEN "loop" ELSE Label(kind)
        /\ resp_count' = IF posted_read' THEN n + 1 ELSE n
        /\ astray' = (astray \/ (posted_read' /\ IsMatch(kind)))
    BY <1>8 DEF Posted
  <2>2. data' \in Tokens /\ data' = posted
    BY <1>5, <1>6, <1>8
  <2>3. /\ words' \in Seq(Tokens) /\ Len(words') <= MaxWords
        /\ (~astray /\ posted_read) =>
              /\ Begins(words', PlainReads(n))
              /\ buf_error' \/ words' = PlainReads(n)
    <3>1. ASSUME ~astray
          PROVE  /\ n > 0 /\ posted = n /\ n - 1 \in Nat
                 /\ PlainReads(n) = Append(PlainReads(n - 1), n)
                 /\ PlainReads(n - 1) \in Seq(Nat)
                 /\ Begins(words, PlainReads(n - 1))
                 /\ buf_error \/ words = PlainReads(n - 1)
      <4>1. /\ n > 0 /\ IsPlainRead(req[n]) /\ posted = n
            /\ Begins(words, PlainReads(n - 1))
            /\ buf_error \/ words = PlainReads(n - 1)
        BY <1>1, <1>2, <3>1 DEF ReadsSoFar, Live, Told, Answered
      <4>2. n - 1 \in Nat /\ (n - 1) + 1 = n
        BY <1>2, <4>1
      <4>3. PlainReads((n - 1) + 1) = Append(PlainReads(n - 1), (n - 1) + 1)
        BY <4>1, <4>2, ReadsUnrolled DEF PlainReads
      <4>. QED
        BY <4>1, <4>2, <4>3, ReadsGrow DEF PlainReads
    <3>. QED
      BY <1>1, <2>1, <2>2, <3>1, WordAdded
  <2>4. CASE NeedsPosted(kind)
    <3>1. /\ pc' = "loop" /\ posted_read' /\ resp_count' = n + 1
          /\ astray' = (astray \/ IsMatch(kind))
      BY <1>7, <2>1, <2>4
    <3>2. RequestTypeOK'
      <4>1. Flags'
        <5>1. buf_error' \in BOOLEAN
          BY <1>1, <2>1, TypeParts DEF AddWord, Flags
        <5>2. astray' \in BOOLEAN
          BY <3>1
        <5>. QED
          BY <1>1, <1>7, <3>1, <5>1, <5>2, TypeParts, Zenon DEF Flags
      <4>2. Values'
        BY <1>1, <1>2, <1>5, <1>7, <2>3, <3>1, TypeParts DEF Values
      <4>. QED
        BY <4>1, <4>2, TypeNext
    <3>3. At' /\ InBlock' /\ OwnWord' /\ UnderWay'
      BY <1>2, <1>7, <3>1 DEF At, InBlock, OwnWord, UnderWay
    <3>4. MatchIsGenuine'
      BY <1>7, <3>1 DEF MatchIsGenuine
    <3>5. ReadsSoFar'
      <4>1. Told' = n
        BY <1>2, <3>1 DEF Told
      <4>2. ASSUME ~astray' PROVE IsPlainRead(req[n + 1]) /\ posted' = n + 1
        BY <1>1, <1>2, <1>5, <1>8, <2>4, <3>1, <4>2, TokenIs, Posts DEF IsMatch, IsPlainRead, NeedsPosted, Kinds
      <4>4. ASSUME ~astray' PROVE Answered'
        <5>1. /\ resp_count' > 0 /\ IsPlainRead(req[resp_count'])
              /\ posted' = resp_count'
          BY <1>2, <3>1, <4>2, <4>4
        <5>. QED
          BY <1>2, <1>7, <2>3, <3>1, <4>1, <4>4, <5>1, AnsweredNext
      <4>. QED
        BY <3>1, <4>4 DEF ReadsSoFar
    <3>6. WritesSoFar'
      <4>1. ASSUME ~astray PROVE written = Writes(n) /\ Writes(n + 1) = Writes(n)
        BY <1>1, <1>2, <2>4, <4>1, WritesUnrolled DEF WritesSoFar, Writes, NeedsPosted
      <4>. QED
        BY <1>5, <1>7, <3>1, <4>1 DEF WritesSoFar, Writes
    <3>. QED
      BY <3>2, <3>3, <3>4, <3>5, <3>6, MiddleNext DEF IInv
  <2>5. CASE ~NeedsPosted(kind)
    <3>1. /\ pc' = Label(kind) /\ ~posted_read' /\ resp_count' = n
          /\ astray' = astray
      BY <1>1, <1>7, <2>1, <2>5, TypeParts DEF Flags
    <3>2. RequestTypeOK'
      <4>1. Flags'
        <5>1. buf_error' \in BOOLEAN
          BY <1>1, <2>1, TypeParts DEF AddWord, Flags
        <5>2. posted_read' \in BOOLEAN
          BY <1>1, <1>2, <1>7, Posts
        <5>. QED
          BY <1>1, <1>7, <3>1, <5>1, <5>2, TypeParts, Zenon DEF Flags
      <4>2. Values'
        BY <1>1, <1>2, <1>5, <1>7, <2>3, <3>1, TypeParts DEF Values, Label
      <4>. QED
        BY <4>1, <4>2, TypeNext
    <3>3. At' /\ InBlock' /\ OwnWord' /\ UnderWay'
      BY <1>1, <1>2, <1>7, <2>5, <3>1
         DEF At, InBlock, OwnWord, UnderWay, Label, Kinds, IsPlainRead, IsMatch, NeedsPosted
    <3>4. MatchIsGenuine'
      BY <3>1 DEF MatchIsGenuine, Label
    <3>5. ReadsSoFar'
      <4>1. Told' = n
        BY <1>2, <3>1 DEF Told
      <4>2. ASSUME ~astray' PROVE Answered'
        BY <1>2, <1>7, <2>3, <3>1, <4>1, <4>2, AnsweredNext
      <4>. QED
        BY <3>1, <4>2 DEF ReadsSoFar, Label
    <3>6. WritesSoFar'
      BY <1>1, <1>5, <1>7, <3>1 DEF WritesSoFar, Writes, Label
    <3>. QED
      BY <3>2, <3>3, <3>4, <3>5, <3>6, MiddleNext DEF IInv
  <2>. QED
    BY <2>4, <2>5
<1>9. CASE ack' # "OK"
  <2>1. pc' = "after" /\ UNCHANGED <<buf_error, resp_count, words, astray>>
    BY <1>9 DEF Posted, reply
  <2>2. RequestTypeOK'
    <3>1. Flags'
      BY <1>1, <1>2, <1>7, <2>1, TypeParts, Posts DEF Flags
    <3>2. Values'
      BY <1>1, <1>5, <1>7, <2>1, TypeParts DEF Values
    <3>. QED
      BY <3>1, <3>2, TypeNext
  <2>3. At' /\ InBlock' /\ OwnWord' /\ MatchIsGenuine' /\ UnderWay'
    BY <1>1, <1>2, <1>7, <1>9, <2>1 DEF At, InBlock, OwnWord, MatchIsGenuine, UnderWay
  <2>4. ReadsSoFar'
    <3>1. ~astray => Answered
      BY <1>1 DEF ReadsSoFar, Live
    <3>. QED
      BY <1>1, <1>7, <1>9, <2>1, <3>1, StopsNext DEF Live
  <2>5. WritesSoFar'
    BY <1>1, <1>5, <1>7, <1>9, <2>1 DEF WritesSoFar, Writes
  <2>. QED
    BY <2>2, <2>3, <2>4, <2>5, MiddleNext DEF IInv
<1>. QED
  BY <1>8, <1>9

LEMMA LoopKeeps == IInv /\ Loop => IInv'
<1>. SUFFICES ASSUME IInv, Loop PROVE IInv'
  OBVIOUS
<1>1. RequestTypeOK /\ At /\ ReadsSoFar /\ WritesSoFar /\ pc = "loop"
  BY DEF IInv, Loop
<1>2. resp_count \in Nat /\ Len(req) \in Nat /\ resp_count <= Len(req)
  BY <1>1, Sizes DEF At
<1>3. UNCHANGED <<req, i, posted_read, ack, data, mismatch, matches, unposted, resp_count,
                  words, dap_port, dap_retry_count, dap_match_retry_count, posted, written>>
  BY DEF Loop, match, reply, config, access
<1>4. ~astray => Answered
  BY <1>1 DEF ReadsSoFar, Live
<1>5. Told' = Told /\ PlainReads(Told)' = PlainReads(Told)
  BY <1>3 DEF Told, PlainReads
<1>6. CASE resp_count < Len(req) /\ ~buf_error
  <2>1. /\ kind' \in Parsed
        /\ room' = IF CanGet(1) THEN room - 1 ELSE room
        /\ buf_error' = ~CanGet(1)
        /\ astray' = (astray \/ ~CanGet(1))
        /\ verify_write' = FALSE /\ equal' = FALSE
        /\ pc' = IF posted_read THEN "posted" ELSE Label(kind')
    BY <1>6 DEF Loop
  <2>2. kind' \in Kinds /\ (astray' \/ kind' = req[resp_count + 1])
    <3>1. req[resp_count + 1] \in Kinds
      BY <1>1, <1>2, <1>6, ElementOfSeq DEF RequestTypeOK
    <3>. QED
      BY <2>1, <3>1 DEF Parsed, Kinds
  <2>3. RequestTypeOK'
    <3>1. Flags'
      <4>1. buf_error' \in BOOLEAN /\ astray' \in BOOLEAN
        BY <2>1
      <4>. QED
        BY <1>1, <1>3, <2>1, <4>1, TypeParts, Zenon DEF Flags
    <3>2. Values'
      <4>1. room' \in 0 .. RequestBytes
        BY <1>1, <2>1, TransferAssumption, TypeParts DEF Values, CanGet
      <4>. QED
        BY <1>1, <1>3, <2>1, <2>2, <4>1, TypeParts DEF Values, Label
    <3>. QED
      BY <3>1, <3>2, TypeNext
  <2>4. At' /\ InBlock' /\ OwnWord' /\ UnderWay'
    BY <1>1, <1>2, <1>3, <1>6, <2>1, <2>2
       DEF At, InBlock, OwnWord, UnderWay, Label, Kinds, IsPlainRead, IsMatch, NeedsPosted
  <2>5. MatchIsGenuine'
    BY <2>1 DEF MatchIsGenuine, Label
  <2>6. ReadsSoFar'
    <3>1. ASSUME ~astray' PROVE Answered'
      <4>1. ~astray /\ ~buf_error
        BY <1>6, <2>1, <3>1
      <4>. QED
        BY <1>3, <1>4, <1>5, <4>1, AnsweredNext DEF Answered
    <3>. QED
      BY <2>1, <3>1 DEF ReadsSoFar, Label
  <2>7. WritesSoFar'
    <3>1. ASSUME ~astray' PROVE written = Writes(resp_count)
      BY <1>1, <2>1, <3>1 DEF WritesSoFar
    <3>. QED
      BY <1>3, <3>1 DEF WritesSoFar, Writes
  <2>. QED
    BY <2>3, <2>4, <2>5, <2>6, <2>7, MiddleNext DEF IInv
<1>7. CASE ~(resp_count < Len(req) /\ ~buf_error)
  <2>1. pc' = "after" /\ UNCHANGED <<req, room, buf_error, kind, astray, verify_write, equal>>
    BY <1>7 DEF Loop, parser
  <2>2. RequestTypeOK'
    <3>1. Flags'
      BY <1>1, <1>3, <2>1, TypeParts DEF Flags
    <3>2. Values'
      BY <1>1, <1>3, <2>1, TypeParts DEF Values
    <3>. QED
      BY <3>1, <3>2, TypeNext
  <2>3. At' /\ InBlock' /\ OwnWord' /\ MatchIsGenuine' /\ UnderWay'
    BY <1>1, <1>2, <1>3, <1>7, <2>1 DEF At, InBlock, OwnWord, MatchIsGenuine, UnderWay
  <2>4. ReadsSoFar'
    <3>1. ASSUME ~astray' PROVE Answered' /\ Begins(words, PlainReads(resp_count))'
      <4>1. Answered /\ Begins(words, PlainReads(resp_count))
        BY <1>1, <1>4, <2>1, <3>1, AnsweredBegins
      <4>2. Answered'
        BY <1>3, <1>5, <2>1, <4>1, AnsweredNext DEF Answered
      <4>. QED
        BY <1>3, <4>1, <4>2 DEF PlainReads
    <3>. QED
      BY <3>1 DEF ReadsSoFar
  <2>5. WritesSoFar'
    <3>1. ASSUME ~astray' PROVE written = Writes(resp_count)
      BY <1>1, <2>1, <3>1 DEF WritesSoFar
    <3>. QED
      BY <1>3, <3>1 DEF WritesSoFar, Writes
  <2>. QED
    BY <2>2, <2>3, <2>4, <2>5, MiddleNext DEF IInv
<1>. QED
  BY <1>6, <1>7

LEMMA MatchKeeps == IInv /\ Match => IInv'
<1>. SUFFICES ASSUME IInv, Match PROVE IInv'
  OBVIOUS
<1>. DEFINE n == resp_count
<1>1. RequestTypeOK /\ At /\ ReadsSoFar /\ WritesSoFar /\ pc = "match"
  BY DEF IInv, Match
<1>2. /\ n \in Nat /\ Len(req) \in Nat /\ n < Len(req) /\ kind \in Kinds
      /\ IsMatch(kind) /\ kind # "write" /\ ~posted_read
      /\ astray \/ kind = req[n + 1]
  BY <1>1, Sizes, Posts DEF At
<1>3. /\ UNCHANGED <<req, kind, i, posted_read, verify_write, ack, mismatch, resp_count,
                     words, dap_port, dap_retry_count, dap_match_retry_count>>
      /\ equal' \in BOOLEAN /\ matches' = dap_match_retry_count /\ pc' = "matching"
  BY DEF Match, flags, reply, config
<1>4. /\ posted' \in Tokens /\ data' \in Tokens /\ written' = written /\ written \in Seq(Tokens)
      /\ unposted' \in BOOLEAN
      /\ (NeedsPosted(kind) /\ ~unposted' /\ ~astray) => posted' = n + 1
  <2>1. CASE NeedsPosted(kind)
    <3>1. PICK a \in Answers(kind) : Word(kind, Token, FALSE, a) /\ unposted' = (a # "OK")
      BY <2>1 DEF Match
    <3>2. Token \in Tokens /\ (~astray => Token = n + 1)
      BY <1>1, <1>2, TokenIs
    <3>3. /\ posted' \in Tokens /\ data' \in Tokens /\ written' = written
          /\ (a = "OK" /\ IsPosted(kind)) => posted' = Token
      BY <1>1, <1>2, <3>1, <3>2, WordDone
    <3>. QED
      BY <1>1, <1>2, <2>1, <3>1, <3>2, <3>3, Posts DEF RequestTypeOK
  <2>2. CASE ~NeedsPosted(kind)
    BY <1>1, <2>2 DEF Match, access, RequestTypeOK
  <2>. QED
    BY <2>1, <2>2
<1>5. /\ room' \in 0 .. RequestBytes /\ buf_error' \in BOOLEAN /\ astray' \in BOOLEAN
      /\ ~astray' => ~astray /\ ~buf_error /\ ~buf_error'
  BY <1>1, WordGot DEF Match
<1>6. RequestTypeOK'
  <2>1. Flags'
    BY <1>1, <1>3, <1>4, <1>5, TypeParts, Zenon DEF Flags
  <2>2. Values'
    <3>1. \E m \in MatchCounts : matches' \in 0 .. m
      BY <1>1, <1>3, TransferAssumption DEF RequestTypeOK
    <3>. QED
      BY <1>1, <1>3, <1>4, <1>5, <3>1, TypeParts DEF Values
  <2>. QED
    BY <2>1, <2>2, TypeNext
<1>7. At' /\ InBlock' /\ MatchIsGenuine' /\ UnderWay'
  BY <1>1, <1>2, <1>3, <1>5 DEF At, InBlock, MatchIsGenuine, UnderWay
<1>8. OwnWord'
  <2>1. NeedsPosted(kind)' = NeedsPosted(kind)
    BY <1>3 DEF NeedsPosted
  <2>. QED
    BY <1>1, <1>2, <1>3, <1>4, <1>5, <2>1, Sizes DEF OwnWord
<1>9. ReadsSoFar'
  <2>1. ASSUME ~astray' PROVE Answered'
    <3>1. Told' = Told
      BY <1>3 DEF Told
    <3>2. Answered /\ ~buf_error
      BY <1>1, <1>5, <2>1 DEF ReadsSoFar, Live
    <3>. QED
      BY <1>2, <1>3, <1>5, <2>1, <3>1, <3>2, AnsweredNext DEF Answered
  <2>. QED
    BY <1>3, <2>1 DEF ReadsSoFar
<1>10. WritesSoFar'
  BY <1>1, <1>3, <1>4, <1>5 DEF WritesSoFar, Writes
<1>. QED
  BY <1>6, <1>7, <1>8, <1>9, <1>10, MiddleNext DEF IInv

LEMMA MatchingKeeps == IInv /\ Matching => IInv'
<1>. SUFFICES ASSUME IInv, Matching PROVE IInv'
  OBVIOUS
<1>. DEFINE n == resp_count
<1>1. RequestTypeOK /\ At /\ ReadsSoFar /\ WritesSoFar /\ OwnWord /\ pc = "matching" /\ matches > 0
  BY DEF IInv, Matching
<1>2. /\ n \in Nat /\ Len(req) \in Nat /\ n < Len(req) /\ kind \in Kinds
      /\ IsMatch(kind) /\ kind # "write" /\ ~posted_read
      /\ astray \/ kind = req[n + 1]
  BY <1>1, Sizes, Posts DEF At
<1>3. PICK a \in Answers(kind) : Word(kind, Token, TRUE, a) /\ ack' = a
  BY DEF Matching
<1>4. Token \in Tokens /\ (~astray => Token = n + 1)
  BY <1>1, <1>2, TokenIs
<1>5. /\ ack' \in {"INVALID", "OK", "WAIT", "FAULT", "ERROR", "PROTOCOL"}
      /\ posted' \in Tokens /\ data' \in Tokens /\ written' = written
      /\ (ack' = "OK" /\ IsPosted(kind)) => posted' = Token
      /\ ack' = "OK" => data' = Returned(kind, Token)
  BY <1>1, <1>2, <1>3, <1>4, WordDone
<1>6. /\ equal' \in IF ack' \in {"OK", "ERROR"} THEN BOOLEAN ELSE {equal}
      /\ matches' = IF ack' = "OK" /\ ~equal' THEN matches - 1 ELSE 0
      /\ UNCHANGED <<pc, req, room, buf_error, kind, astray, i, posted_read, verify_write,
                     mismatch, unposted, resp_count, words,
                     dap_port, dap_retry_count, dap_match_retry_count>>
  BY DEF Matching, parser, flags, reply, config
<1>7. RequestTypeOK'
  <2>1. Flags'
    <3>1. equal' \in BOOLEAN
      BY <1>1, <1>6, TypeParts DEF Flags
    <3>. QED
      BY <1>1, <1>6, <3>1, TypeParts, Zenon DEF Flags
  <2>2. Values'
    <3>1. PICK m \in MatchCounts : matches \in 0 .. m
      BY <1>1 DEF RequestTypeOK
    <3>2. m \in Nat /\ matches - 1 \in 0 .. m /\ 0 \in 0 .. m
      BY <1>1, <3>1, TransferAssumption
    <3>3. \E x \in MatchCounts : matches' \in 0 .. x
      BY <1>6, <3>1, <3>2
    <3>. QED
      BY <1>1, <1>5, <1>6, <3>3, TypeParts DEF Values
  <2>. QED
    BY <2>1, <2>2, TypeNext
<1>8. At' /\ InBlock' /\ MatchIsGenuine' /\ UnderWay'
  BY <1>1, <1>2, <1>6 DEF At, InBlock, MatchIsGenuine, UnderWay
<1>9. OwnWord'
  <2>1. /\ NeedsPosted(kind)' <=> NeedsPosted(kind)
        /\ NeedsPosted(kind) <=> IsPosted(kind)
    <3>1. kind \notin {"write", "mask"}
      BY <1>2 DEF IsMatch
    <3>2. NeedsPosted(kind)' <=> NeedsPosted(kind)
      BY <1>6 DEF NeedsPosted
    <3>. QED
      BY <1>1, <1>2, <3>1, <3>2, Posts
  <2>2. ASSUME ~astray, ~unposted, ack' = "OK" PROVE data' = n + 1
    <3>1. CASE IsPosted(kind)
      BY <1>1, <1>5, <2>1, <2>2, <3>1 DEF OwnWord, Returned
    <3>2. CASE ~IsPosted(kind)
      BY <1>2, <1>4, <1>5, <2>2, <3>2 DEF Returned, IsMatch
    <3>. QED
      BY <3>1, <3>2
  <2>3. ASSUME ~astray, matches' > 0, NeedsPosted(kind) PROVE posted' = n + 1
    BY <1>4, <1>5, <1>6, <2>1, <2>3
  <2>. QED
    BY <1>6, <2>1, <2>2, <2>3 DEF OwnWord
<1>10. ReadsSoFar'
  <2>1. ASSUME ~astray' PROVE Answered'
    <3>1. Told' = Told
      BY <1>6 DEF Told
    <3>2. Answered
      BY <1>1, <1>6, <2>1 DEF ReadsSoFar, Live
    <3>. QED
      BY <1>2, <1>6, <3>1, <3>2, AnsweredNext DEF Answered
  <2>. QED
    BY <1>1, <1>6, <2>1 DEF ReadsSoFar
<1>11. WritesSoFar'
  BY <1>1, <1>5, <1>6 DEF WritesSoFar, Writes
<1>. QED
  BY <1>7, <1>8, <1>9, <1>10, <1>11, MiddleNext DEF IInv

LEMMA MatchedKeeps == IInv /\ Matched => IInv'
<1>. SUFFICES ASSUME IInv, Matched PROVE IInv'
  OBVIOUS
<1>. DEFINE n == resp_count
<1>1. /\ RequestTypeOK /\ At /\ ReadsSoFar /\ WritesSoFar /\ OwnWord
      /\ pc = "matching" /\ matches = 0
  BY DEF IInv, Matched
<1>2. /\ n \in Nat /\ Len(req) \in Nat /\ n < Len(req) /\ kind \in Kinds
      /\ IsMatch(kind) /\ kind # "write" /\ ~IsPlainRead(kind) /\ ~posted_read
      /\ astray \/ kind = req[n + 1]
      /\ Len(req) <= MaxRequests /\ MaxRequests \in Nat
  BY <1>1, Sizes, Posts DEF At, IsMatch, IsPlainRead
<1>3. /\ mismatch' = ~equal
      /\ UNCHANGED <<req, room, buf_error, kind, astray, i, posted_read, verify_write, ack,
                     data, equal, matches, unposted, words,
                     dap_port, dap_retry_count, dap_match_retry_count, posted, written>>
  BY DEF Matched, parser, flags, config, access
<1>4. ASSUME ~astray PROVE Answered /\ written = Writes(n)
  BY <1>1, <1>4 DEF ReadsSoFar, WritesSoFar, Live
<1>5. Flags'
  <2>1. mismatch' \in BOOLEAN
    BY <1>3
  <2>. QED
    BY <1>1, <1>3, <2>1, TypeParts, Zenon DEF Flags
<1>6. CASE ack = "OK" /\ equal
  <2>1. pc' = "loop" /\ resp_count' = n + 1
    BY <1>6 DEF Matched
  <2>2. RequestTypeOK'
    <3>1. Values'
      BY <1>1, <1>2, <1>3, <2>1, TypeParts DEF Values
    <3>. QED
      BY <1>5, <3>1, TypeNext
  <2>3. At' /\ InBlock' /\ OwnWord' /\ UnderWay'
    BY <1>1, <1>2, <1>3, <2>1 DEF At, InBlock, OwnWord, UnderWay
  <2>4. MatchIsGenuine'
    BY <1>1, <1>3, <1>6, <2>1 DEF MatchIsGenuine, OwnWord
  <2>5. ReadsSoFar'
    <3>1. ASSUME ~astray' PROVE Answered'
      <4>1. Told = n /\ Told' = n + 1
        BY <1>2, <1>3, <2>1 DEF Told
      <4>2. PlainReads(n + 1) = PlainReads(n)
        BY <1>2, <1>3, <3>1, ReadsUnrolled DEF PlainReads
      <4>. QED
        BY <1>2, <1>3, <1>4, <3>1, <4>1, <4>2, AnsweredNext DEF Answered
    <3>. QED
      BY <2>1, <3>1 DEF ReadsSoFar
  <2>6. WritesSoFar'
    <3>1. ASSUME ~astray PROVE Writes(n + 1) = Writes(n)
      BY <1>2, <3>1, WritesUnrolled DEF Writes
    <3>. QED
      BY <1>3, <1>4, <2>1, <3>1 DEF WritesSoFar, Writes
  <2>. QED
    BY <2>2, <2>3, <2>4, <2>5, <2>6, MiddleNext DEF IInv
<1>7. CASE ~(ack = "OK" /\ equal)
  <2>1. pc' = "after" /\ resp_count' = n
    BY <1>7 DEF Matched
  <2>2. RequestTypeOK'
    <3>1. Values'
      BY <1>1, <1>2, <1>3, <2>1, TypeParts DEF Values
    <3>. QED
      BY <1>5, <3>1, TypeNext
  <2>3. At' /\ InBlock' /\ OwnWord' /\ MatchIsGenuine' /\ UnderWay'
    BY <1>1, <1>2, <1>3, <1>7, <2>1 DEF At, InBlock, OwnWord, MatchIsGenuine, UnderWay
  <2>4. ReadsSoFar'
    BY <1>1, <1>3, <1>4, <1>7, <2>1, StopsNext DEF Live
  <2>5. WritesSoFar'
    BY <1>3, <1>4, <2>1 DEF WritesSoFar, Writes
  <2>. QED
    BY <2>2, <2>3, <2>4, <2>5, MiddleNext DEF IInv
<1>. QED
  BY <1>6, <1>7

LEMMA PostKeeps == IInv /\ Post => IInv'
<1>. SUFFICES ASSUME IInv, Post PROVE IInv'
  OBVIOUS
<1>. DEFINE n == resp_count
<1>1. RequestTypeOK /\ At /\ ReadsSoFar /\ WritesSoFar /\ pc = "post"
  BY DEF IInv, Post
<1>2. /\ n \in Nat /\ Len(req) \in Nat /\ n < Len(req) /\ kind \in Kinds
      /\ IsPlainRead(kind) /\ NeedsPosted(kind) /\ kind # "write" /\ ~posted_read
      /\ astray \/ kind = req[n + 1]
      /\ Len(req) <= MaxRequests /\ MaxRequests \in Nat
  BY <1>1, Sizes, Posts DEF At
<1>3. PICK a \in Answers(kind) : Word(kind, Token, FALSE, a) /\ ack' = a
  BY DEF Post
<1>4. Token \in Tokens /\ (~astray => Token = n + 1)
  BY <1>1, <1>2, TokenIs
<1>5. /\ ack' \in {"INVALID", "OK", "WAIT", "FAULT", "ERROR", "PROTOCOL"}
      /\ posted' \in Tokens /\ data' \in Tokens /\ written' = written
      /\ ack' = "OK" => posted' = Token
  BY <1>1, <1>2, <1>3, <1>4, WordDone, Posts
<1>6. UNCHANGED <<req, room, buf_error, kind, astray, i, verify_write, equal, mismatch, matches,
                  unposted, words, dap_port, dap_retry_count, dap_match_retry_count>>
  BY DEF Post, parser, match, config
<1>7. ASSUME ~astray PROVE Answered /\ written = Writes(n)
  BY <1>1, <1>7 DEF ReadsSoFar, WritesSoFar, Live
<1>8. CASE ack' = "OK"
  <2>1. pc' = "loop" /\ posted_read' = TRUE /\ resp_count' = n + 1
    BY <1>8 DEF Post
  <2>2. RequestTypeOK'
    <3>1. Flags'
      BY <1>1, <1>6, <2>1, TypeParts DEF Flags
    <3>2. Values'
      BY <1>1, <1>2, <1>5, <1>6, <2>1, TypeParts DEF Values
    <3>. QED
      BY <3>1, <3>2, TypeNext
  <2>3. At' /\ InBlock' /\ OwnWord' /\ UnderWay'
    BY <1>1, <1>2, <1>6, <2>1 DEF At, InBlock, OwnWord, UnderWay
  <2>4. MatchIsGenuine'
    BY <1>1, <1>2, <1>6, <2>1, Posts DEF MatchIsGenuine, IsMatch, IsPlainRead
  <2>5. ReadsSoFar'
    <3>1. ASSUME ~astray' PROVE Answered'
      <4>1. Told = n /\ Told' = n
        BY <1>2, <2>1 DEF Told
      <4>2. /\ resp_count' > 0 /\ IsPlainRead(req[resp_count'])
            /\ posted' = resp_count'
        BY <1>2, <1>4, <1>5, <1>6, <1>8, <2>1, <3>1
      <4>. QED
        BY <1>6, <1>7, <3>1, <4>1, <4>2, AnsweredNext DEF Answered
    <3>. QED
      BY <2>1, <3>1 DEF ReadsSoFar
  <2>6. WritesSoFar'
    <3>1. ASSUME ~astray PROVE Writes(n + 1) = Writes(n)
      BY <1>2, <3>1, WritesUnrolled DEF Writes
    <3>. QED
      BY <1>5, <1>6, <1>7, <2>1, <3>1 DEF WritesSoFar, Writes
  <2>. QED
    BY <2>2, <2>3, <2>4, <2>5, <2>6, MiddleNext DEF IInv
<1>9. CASE ack' # "OK"
  <2>1. pc' = "after" /\ UNCHANGED <<posted_read, resp_count>>
    BY <1>9 DEF Post
  <2>2. RequestTypeOK'
    <3>1. Flags'
      BY <1>1, <1>6, <2>1, TypeParts DEF Flags
    <3>2. Values'
      BY <1>1, <1>2, <1>5, <1>6, <2>1, TypeParts DEF Values
    <3>. QED
      BY <3>1, <3>2, TypeNext
  <2>3. At' /\ InBlock' /\ OwnWord' /\ MatchIsGenuine' /\ UnderWay'
    BY <1>1, <1>2, <1>6, <1>9, <2>1 DEF At, InBlock, OwnWord, MatchIsGenuine, UnderWay
  <2>4. ReadsSoFar'
    BY <1>1, <1>6, <1>7, <1>9, <2>1, StopsNext DEF Live
  <2>5. WritesSoFar'
    BY <1>5, <1>6, <1>7, <2>1 DEF WritesSoFar, Writes
  <2>. QED
    BY <2>2, <2>3, <2>4, <2>5, MiddleNext DEF IInv
<1>. QED
  BY <1>8, <1>9

LEMMA DirectKeeps == IInv /\ Direct => IInv'
<1>. SUFFICES ASSUME IInv, Direct PROVE IInv'
  OBVIOUS
<1>. DEFINE n == resp_count
<1>1. RequestTypeOK /\ At /\ ReadsSoFar /\ WritesSoFar /\ pc = "direct"
  BY DEF IInv, Direct
<1>2. /\ n \in Nat /\ Len(req) \in Nat /\ n < Len(req) /\ kind \in Kinds
      /\ IsPlainRead(kind) /\ ~NeedsPosted(kind) /\ kind # "write" /\ ~posted_read
      /\ kind # "mask"
      /\ astray \/ kind = req[n + 1]
      /\ Len(req) <= MaxRequests /\ MaxRequests \in Nat
  BY <1>1, Sizes, Posts DEF At, IsPlainRead
<1>3. PICK a \in Answers(kind) : Word(kind, Token, TRUE, a) /\ ack' = a
  BY DEF Direct
<1>4. Token \in Tokens /\ (~astray => Token = n + 1)
  BY <1>1, <1>2, TokenIs
<1>5. /\ ack' \in {"INVALID", "OK", "WAIT", "FAULT", "ERROR", "PROTOCOL"}
      /\ posted' \in Tokens /\ data' \in Tokens /\ written' = written
      /\ ack' = "OK" => data' = Returned(kind, Token)
  BY <1>1, <1>2, <1>3, <1>4, WordDone
<1>6. ack' = "OK" => data' = Token
  <2>1. ~IsPosted(kind) /\ kind # "rdbuff"
    BY <1>1, <1>2, Posts DEF Kinds
  <2>. QED
    BY <1>5, <2>1 DEF Returned
<1>7. UNCHANGED <<req, room, kind, astray, i, posted_read, verify_write, equal, mismatch,
                  matches, unposted, dap_port, dap_retry_count, dap_match_retry_count>>
  BY DEF Direct, flags, match, config
<1>8. ASSUME ~astray PROVE Answered /\ written = Writes(n)
  BY <1>1, <1>8 DEF ReadsSoFar, WritesSoFar, Live
<1>9. CASE ack' = "OK"
  <2>1. AddWord(data') /\ pc' = "loop" /\ resp_count' = n + 1
    BY <1>9 DEF Direct
  <2>2. /\ words' \in Seq(Tokens) /\ Len(words') <= MaxWords
        /\ ~astray => /\ Begins(words', PlainReads(n + 1))
                      /\ buf_error' \/ words' = PlainReads(n + 1)
    <3>1. ASSUME ~astray
          PROVE  /\ PlainReads(n + 1) = Append(PlainReads(n), data')
                 /\ PlainReads(n) \in Seq(Nat)
                 /\ Begins(words, PlainReads(n))
                 /\ buf_error \/ words = PlainReads(n)
      <4>1. PlainReads(n + 1) = Append(PlainReads(n), n + 1) /\ PlainReads(n) \in Seq(Nat)
        BY <1>2, <3>1, ReadsUnrolled, ReadsGrow DEF PlainReads
      <4>2. data' = n + 1 /\ Told = n
        BY <1>2, <1>4, <1>6, <1>9, <3>1 DEF Told
      <4>. QED
        BY <1>8, <3>1, <4>1, <4>2 DEF Answered
    <3>. QED
      BY <1>1, <1>5, <2>1, <3>1, WordAdded
  <2>3. RequestTypeOK'
    <3>1. Flags'
      <4>1. buf_error' \in BOOLEAN
        BY <1>1, <2>1, TypeParts DEF AddWord, Flags
      <4>. QED
        BY <1>1, <1>7, <4>1, TypeParts, Zenon DEF Flags
    <3>2. Values'
      BY <1>1, <1>2, <1>5, <1>7, <2>1, <2>2, TypeParts DEF Values
    <3>. QED
      BY <3>1, <3>2, TypeNext
  <2>4. At' /\ InBlock' /\ OwnWord' /\ UnderWay'
    BY <1>1, <1>2, <1>7, <2>1 DEF At, InBlock, OwnWord, UnderWay
  <2>5. MatchIsGenuine'
    BY <1>1, <1>2, <1>7, <2>1, Posts DEF MatchIsGenuine, IsMatch, IsPlainRead
  <2>6. ReadsSoFar'
    <3>1. ASSUME ~astray' PROVE Answered'
      <4>1. Told' = n + 1
        BY <1>2, <1>7, <2>1 DEF Told
      <4>. QED
        BY <1>2, <1>7, <2>2, <3>1, <4>1, AnsweredNext
    <3>. QED
      BY <2>1, <3>1 DEF ReadsSoFar
  <2>7. WritesSoFar'
    <3>1. ASSUME ~astray PROVE Writes(n + 1) = Writes(n)
      BY <1>2, <3>1, WritesUnrolled DEF Writes
    <3>. QED
      BY <1>5, <1>7, <1>8, <2>1, <3>1 DEF WritesSoFar, Writes
  <2>. QED
    BY <2>3, <2>4, <2>5, <2>6, <2>7, MiddleNext DEF IInv
<1>10. CASE ack' # "OK"
  <2>1. pc' = "after" /\ UNCHANGED <<buf_error, resp_count, words>>
    BY <1>10 DEF Direct, reply
  <2>2. RequestTypeOK'
    <3>1. Flags'
      BY <1>1, <1>7, <2>1, TypeParts DEF Flags
    <3>2. Values'
      BY <1>1, <1>2, <1>5, <1>7, <2>1, TypeParts DEF Values
    <3>. QED
      BY <3>1, <3>2, TypeNext
  <2>3. At' /\ InBlock' /\ OwnWord' /\ MatchIsGenuine' /\ UnderWay'
    BY <1>1, <1>2, <1>7, <1>10, <2>1 DEF At, InBlock, OwnWord, MatchIsGenuine, UnderWay
  <2>4. ReadsSoFar'
    BY <1>1, <1>7, <1>8, <1>10, <2>1, StopsNext DEF Live
  <2>5. WritesSoFar'
    BY <1>5, <1>7, <1>8, <2>1 DEF WritesSoFar, Writes
  <2>. QED
    BY <2>2, <2>3, <2>4, <2>5, MiddleNext DEF IInv
<1>. QED
  BY <1>9, <1>10

LEMMA WriteKeeps == IInv /\ Write => IInv'
<1>. SUFFICES ASSUME IInv, Write PROVE IInv'
  OBVIOUS
<1>. DEFINE n == resp_count
            t == IF CanGet(4) THEN Token ELSE 0
<1>1. RequestTypeOK /\ At /\ ReadsSoFar /\ WritesSoFar /\ pc = "write"
  BY DEF IInv, Write
<1>2. /\ n \in Nat /\ Len(req) \in Nat /\ n < Len(req)
      /\ kind \in {"write", "mask"} /\ kind \in Kinds
      /\ ~posted_read /\ ~IsPlainRead(kind) /\ ~IsMatch(kind)
      /\ astray \/ kind = req[n + 1]
      /\ Len(req) <= MaxRequests /\ MaxRequests \in Nat
  BY <1>1, Sizes DEF At, IsPlainRead, IsMatch
<1>3. /\ room' \in 0 .. RequestBytes /\ buf_error' \in BOOLEAN /\ astray' \in BOOLEAN
      /\ ~astray' => ~astray /\ ~buf_error /\ ~buf_error' /\ CanGet(4)
  BY <1>1, WordGot DEF Write
<1>4. t \in Tokens /\ (~astray' => t = n + 1)
  BY <1>1, <1>2, <1>3, TokenIs, Sizes
<1>5. /\ ack' \in {"INVALID", "OK", "WAIT", "FAULT", "ERROR", "PROTOCOL"}
      /\ posted' \in Tokens /\ data' \in Tokens /\ written' \in Seq(Tokens)
      /\ kind = "mask" => ack' = "OK" /\ written' = written
      /\ (kind = "write" /\ ack' = "OK") => written' = Append(written, t)
      /\ (kind = "write" /\ ack' # "OK") =>
            \/ written' = written
            \/ ack' \in {"PROTOCOL", "INVALID"} /\ written' = Append(written, t)
  <2>1. CASE kind = "mask"
    BY <1>1, <2>1 DEF Write, access, RequestTypeOK
  <2>2. CASE kind = "write"
    <3>1. PICK a \in Answers(kind) : Word(kind, t, FALSE, a) /\ ack' = a
      BY <2>2 DEF Write
    <3>. QED
      BY <1>1, <1>2, <1>4, <2>2, <3>1, WordDone
  <2>. QED
    BY <1>2, <2>1, <2>2
<1>6. UNCHANGED <<req, kind, i, posted_read, equal, mismatch, matches, unposted, words,
                  dap_port, dap_retry_count, dap_match_retry_count>>
  BY DEF Write, match, config
<1>7. ASSUME ~astray' PROVE /\ Answered /\ written = Writes(n)
                            /\ PlainReads(n + 1) = PlainReads(n)
                            /\ kind = "write" => Writes(n + 1) = Append(Writes(n), t)
                            /\ kind = "mask" => Writes(n + 1) = Writes(n)
  <2>1. Answered /\ written = Writes(n)
    BY <1>1, <1>3, <1>7 DEF ReadsSoFar, WritesSoFar, Live
  <2>2. PlainReads(n + 1) = PlainReads(n)
    BY <1>2, <1>3, <1>7, ReadsUnrolled DEF PlainReads
  <2>3. Writes(n + 1) = IF kind = "write" THEN Append(Writes(n), n + 1) ELSE Writes(n)
    BY <1>2, <1>3, <1>7, WritesUnrolled DEF Writes
  <2>. QED
    BY <1>4, <1>7, <2>1, <2>2, <2>3
<1>8. CASE ack' = "OK"
  <2>1. pc' = "loop" /\ resp_count' = n + 1 /\ verify_write' = (kind = "write")
    BY <1>8 DEF Write
  <2>2. RequestTypeOK'
    <3>1. Flags'
      <4>1. verify_write' \in BOOLEAN
        BY <2>1
      <4>. QED
        BY <1>1, <1>3, <1>6, <4>1, TypeParts, Zenon DEF Flags
    <3>2. Values'
      BY <1>1, <1>2, <1>3, <1>5, <1>6, <2>1, TypeParts DEF Values
    <3>. QED
      BY <3>1, <3>2, TypeNext
  <2>3. At' /\ InBlock' /\ OwnWord' /\ MatchIsGenuine' /\ UnderWay'
    BY <1>1, <1>2, <1>6, <2>1 DEF At, InBlock, OwnWord, MatchIsGenuine, UnderWay, IsMatch
  <2>4. ReadsSoFar'
    <3>1. ASSUME ~astray' PROVE Answered'
      <4>1. Told = n /\ Told' = n + 1
        BY <1>2, <1>6, <2>1 DEF Told
      <4>. QED
        BY <1>2, <1>3, <1>6, <1>7, <3>1, <4>1, AnsweredNext DEF Answered
    <3>. QED
      BY <2>1, <3>1 DEF ReadsSoFar
  <2>5. WritesSoFar'
    BY <1>2, <1>5, <1>6, <1>7, <1>8, <2>1 DEF WritesSoFar, Writes
  <2>. QED
    BY <2>2, <2>3, <2>4, <2>5, MiddleNext DEF IInv
<1>9. CASE ack' # "OK"
  <2>1. pc' = "after" /\ UNCHANGED <<resp_count, verify_write>>
    BY <1>9 DEF Write
  <2>2. RequestTypeOK'
    <3>1. Flags'
      BY <1>1, <1>3, <1>6, <2>1, TypeParts, Zenon DEF Flags
    <3>2. Values'
      BY <1>1, <1>2, <1>3, <1>5, <1>6, <2>1, TypeParts DEF Values
    <3>. QED
      BY <3>1, <3>2, TypeNext
  <2>3. At' /\ InBlock' /\ OwnWord' /\ MatchIsGenuine' /\ UnderWay'
    BY <1>1, <1>2, <1>6, <1>9, <2>1 DEF At, InBlock, OwnWord, MatchIsGenuine, UnderWay
  <2>4. ReadsSoFar'
    BY <1>1, <1>6, <1>7, <1>9, <2>1, StopsNext DEF Live
  <2>5. WritesSoFar'
    BY <1>2, <1>5, <1>6, <1>7, <1>9, <2>1 DEF WritesSoFar, Writes
  <2>. QED
    BY <2>2, <2>3, <2>4, <2>5, MiddleNext DEF IInv
<1>. QED
  BY <1>8, <1>9

(***************************************************************************)
(* The end of a request.                                                   *)
(***************************************************************************)

LEMMA Finished ==
  pc = "done" /\ RequestTypeOK /\ resp_count <= Len(req) /\ ReadsInOrder /\ OKMeansDone /\ CountTellsWrites
     => IInv
BY DEF IInv, Between, At, InBlock, ReadsSoFar, Live, WritesSoFar, OwnWord, MatchIsGenuine

LEMMA FinishedNext ==
  ASSUME pc' = "done", RequestTypeOK', (resp_count <= Len(req))',
         ReadsInOrder', OKMeansDone', CountTellsWrites'
  PROVE  IInv'
<1>1. (pc = "done")'
  OBVIOUS
<1>. QED
  BY <1>1, Finished, PTL

\* The words are a part of the words of all the reads.
LEMMA InOrder ==
  RequestTypeOK /\ resp_count <= Len(req) /\ (~astray => Begins(words, PlainReads(resp_count)))
     => ReadsInOrder
<1>. SUFFICES ASSUME RequestTypeOK, resp_count <= Len(req), ~astray,
                     Begins(words, PlainReads(resp_count))
              PROVE  Begins(words, PlainReads(Len(req)))
  BY DEF ReadsInOrder, Begins
<1>1. Len(req) \in Nat /\ resp_count \in 0 .. Len(req)
  BY Sizes
<1>2. /\ PlainReads(resp_count) \in Seq(Nat) /\ PlainReads(Len(req)) \in Seq(Nat)
      /\ Begins(PlainReads(resp_count), PlainReads(Len(req)))
  BY <1>1, ReadsGrow DEF PlainReads
<1>. QED
  BY <1>2, Sizes, BeginsLonger, LenProperties

LEMMA InOrderNext ==
  ASSUME NEW n, RequestTypeOK', resp_count' = n, (resp_count <= Len(req))', req' = req,
         ~astray' => Begins(words', PlainReads(n))
  PROVE  ReadsInOrder'
<1>1. PlainReads(resp_count)' = PlainReads(n)
  BY DEF PlainReads
<1>2. (~astray => Begins(words, PlainReads(resp_count)))'
  BY <1>1
<1>. QED
  BY <1>2, InOrder, PTL

\* The word of the last posted read, if there is one.
LEMMA AfterKeeps == IInv /\ After => IInv'
<1>. SUFFICES ASSUME IInv, After PROVE IInv'
  OBVIOUS
<1>. DEFINE n == resp_count
            confirmed == ack = "OK" /\ ~mismatch /\ (posted_read \/ verify_write)
<1>1. RequestTypeOK /\ At /\ ReadsSoFar /\ WritesSoFar /\ pc = "after"
  BY DEF IInv, After
<1>2. n \in Nat /\ Len(req) \in Nat /\ n <= Len(req) /\ Len(words) \in Nat
  BY <1>1, Sizes DEF At
<1>3. /\ pc' = "done"
      /\ UNCHANGED <<req, room, kind, astray, i, posted_read, verify_write, equal, mismatch,
                     matches, unposted, resp_count,
                     dap_port, dap_retry_count, dap_match_retry_count>>
  BY DEF After, flags, match, config
<1>4. ASSUME ~astray
      PROVE  /\ Begins(words, PlainReads(n))
             /\ (ack = "OK" /\ ~mismatch) => Answered
             /\ \/ written = Writes(n)
                \/ /\ ack \in {"PROTOCOL", "INVALID"}
                   /\ n < Len(req)
                   /\ written = Writes(n + 1)
  BY <1>1, <1>4 DEF ReadsSoFar, WritesSoFar, Live
<1>5. /\ ack' \in {"INVALID", "OK", "WAIT", "FAULT", "ERROR", "PROTOCOL"}
      /\ posted' \in Tokens /\ data' \in Tokens /\ written' = written
      /\ IF confirmed
           THEN /\ (ack' = "OK" /\ posted_read) => data' = posted
                /\ IF posted_read THEN AddWord(data') ELSE UNCHANGED <<words, buf_error>>
           ELSE UNCHANGED <<ack, words, buf_error>>
  <2>1. CASE confirmed
    <3>1. PICK a \in Answers("rdbuff") : Word("rdbuff", 0, posted_read, a) /\ ack' = a
      BY <2>1 DEF After
    <3>2. IF posted_read THEN AddWord(data') ELSE UNCHANGED <<words, buf_error>>
      BY <2>1 DEF After
    <3>3. posted_read \in BOOLEAN /\ 0 \in Tokens
      BY <1>1, Sizes, TypeParts DEF Flags
    <3>4. Returned("rdbuff", 0) = posted
      BY DEF Returned
    <3>. QED
      BY <1>1, <2>1, <3>1, <3>2, <3>3, <3>4, WordDone
  <2>2. CASE ~confirmed
    BY <1>1, <2>2 DEF After, access, RequestTypeOK
  <2>. QED
    BY <2>1, <2>2
<1>6. CASE confirmed /\ posted_read
  <2>1. AddWord(data')
    BY <1>5, <1>6
  <2>2. ASSUME ~astray
        PROVE  /\ n > 0 /\ n - 1 \in Nat /\ posted = n
               /\ Begins(words, PlainReads(n - 1))
               /\ buf_error \/ words = PlainReads(n - 1)
               /\ PlainReads(n) = Append(PlainReads(n - 1), n)
               /\ PlainReads(n - 1) \in Seq(Nat)
    <3>1. /\ n > 0 /\ IsPlainRead(req[n]) /\ posted = n
          /\ Begins(words, PlainReads(n - 1))
          /\ buf_error \/ words = PlainReads(n - 1)
      BY <1>4, <1>6, <2>2 DEF Answered, Told
    <3>2. n - 1 \in Nat /\ (n - 1) + 1 = n
      BY <1>2, <3>1
    <3>3. PlainReads((n - 1) + 1) = Append(PlainReads(n - 1), (n - 1) + 1)
      BY <3>1, <3>2, ReadsUnrolled DEF PlainReads
    <3>. QED
      BY <3>1, <3>2, <3>3, ReadsGrow DEF PlainReads
  <2>3. /\ words' \in Seq(Tokens) /\ Len(words') <= MaxWords
        /\ buf_error => buf_error' /\ words' = words
        /\ ~astray =>
              /\ Begins(words', Append(PlainReads(n - 1), data'))
              /\ buf_error' \/ words' = Append(PlainReads(n - 1), data')
    BY <1>1, <1>5, <2>1, <2>2, WordAdded
  <2>4. RequestTypeOK'
    <3>1. Flags'
      <4>1. buf_error' \in BOOLEAN
        BY <1>1, <2>1, TypeParts DEF AddWord, Flags
      <4>. QED
        BY <1>1, <1>3, <4>1, TypeParts, Zenon DEF Flags
    <3>2. Values'
      BY <1>1, <1>3, <1>5, <2>3, TypeParts DEF Values
    <3>. QED
      BY <3>1, <3>2, TypeNext
  <2>5. ReadsInOrder'
    <3>1. CASE ack' = "OK"
      <4>1. ASSUME ~astray' PROVE Begins(words', PlainReads(n))
        BY <1>3, <1>5, <1>6, <2>2, <2>3, <3>1, <4>1
      <4>. QED
        BY <1>1, <1>2, <1>3, <2>4, <4>1, InOrderNext
    <3>2. CASE ack' # "OK"
      <4>. SUFFICES ASSUME ~astray'
                    PROVE  LET reads == PlainReads(Len(req))
                           IN  /\ Len(words') <= Len(reads)
                               /\ \A j \in 1 .. Len(words') :
                                     words'[j] = reads[j] \/ j = Len(words')
        BY <1>3, <3>2 DEF ReadsInOrder, PlainReads
      <4>. DEFINE before == PlainReads(n - 1)
                  all == PlainReads(Len(req))
      <4>1. /\ before \in Seq(Nat) /\ Begins(words', Append(before, data'))
            /\ Begins(Append(before, n), all) /\ all \in Seq(Nat)
        <5>1. n \in 0 .. Len(req)
          BY <1>2
        <5>. QED
          BY <1>2, <1>3, <2>2, <2>3, <5>1, ReadsGrow DEF PlainReads
      <4>2. data' \in Nat /\ n \in Nat
        BY <1>1, <1>2, <1>5, Sizes
      <4>. HIDE DEF before, all
      <4>3. /\ Len(words') <= Len(before) + 1 /\ Len(before) + 1 <= Len(all)
            /\ Len(words') \in Nat /\ Len(before) \in Nat /\ Len(all) \in Nat
            /\ \A j \in 1 .. Len(words') : words'[j] = Append(before, data')[j]
            /\ \A j \in 1 .. Len(before) + 1 : Append(before, n)[j] = all[j]
        BY <2>3, <4>1, <4>2, AppendProperties, LenProperties DEF Begins
      <4>4. ASSUME NEW j \in 1 .. Len(words'), j # Len(words') PROVE words'[j] = all[j]
        <5>1. j \in 1 .. Len(before) /\ j \in 1 .. Len(before) + 1
          BY <4>3, <4>4
        <5>2. Append(before, data')[j] = before[j] /\ Append(before, n)[j] = before[j]
          BY <4>1, <4>2, <5>1, AppendProperties
        <5>. QED
          BY <4>3, <5>1, <5>2
      <4>. QED
        BY <4>3, <4>4 DEF all
    <3>. QED
      BY <3>1, <3>2
  <2>6. OKMeansDone'
    <3>1. ASSUME ack' = "OK", ~mismatch, ~astray, ~buf_error'
          PROVE  n = Len(req) /\ words' = PlainReads(n) /\ written' = Writes(n)
      <4>1. ~buf_error
        BY <2>3, <3>1
      <4>2. n = Len(req)
        BY <1>1, <1>6, <3>1, <4>1 DEF At
      <4>. QED
        BY <1>2, <1>4, <1>5, <1>6, <2>2, <2>3, <3>1, <4>2
    <3>. QED
      BY <1>3, <3>1 DEF OKMeansDone, PlainReads, Writes
  <2>7. CountTellsWrites'
    BY <1>3, <1>4, <1>5, <1>6 DEF CountTellsWrites, Writes
  <2>. QED
    BY <1>2, <1>3, <2>4, <2>5, <2>6, <2>7, FinishedNext
<1>7. CASE ~(confirmed /\ posted_read)
  <2>1. UNCHANGED <<words, buf_error>> /\ (~confirmed => ack' = ack)
    BY <1>5, <1>7
  <2>2. RequestTypeOK'
    <3>1. Flags'
      BY <1>1, <1>3, <2>1, TypeParts DEF Flags
    <3>2. Values'
      BY <1>1, <1>3, <1>5, <2>1, TypeParts DEF Values
    <3>. QED
      BY <3>1, <3>2, TypeNext
  <2>3. ReadsInOrder'
    BY <1>1, <1>2, <1>3, <1>4, <2>1, <2>2, InOrderNext
  <2>4. OKMeansDone'
    <3>1. ASSUME ack' = "OK", ~mismatch, ~astray, ~buf_error
          PROVE  n = Len(req) /\ words = PlainReads(n) /\ written = Writes(n)
      <4>1. ack = "OK" /\ ~posted_read
        BY <1>7, <2>1, <3>1
      <4>2. n = Len(req)
        BY <1>1, <3>1, <4>1 DEF At
      <4>. QED
        BY <1>4, <3>1, <4>1, <4>2 DEF Answered, Told
    <3>. QED
      BY <1>3, <1>5, <2>1, <3>1 DEF OKMeansDone, PlainReads, Writes
  <2>5. CountTellsWrites'
    BY <1>3, <1>4, <1>5, <2>1 DEF CountTellsWrites, Writes
  <2>. QED
    BY <1>2, <1>3, <2>2, <2>3, <2>4, <2>5, FinishedNext
<1>. QED
  BY <1>6, <1>7

(***************************************************************************)
(* The invariant is kept: dap_transfer_block.                              *)
(***************************************************************************)

\* The way into a request.
LEMMA Begun ==
  ASSUME RequestTypeOK, Between, pc = "idle"
  PROVE  /\ req = <<>> /\ i = 0 /\ resp_count = 0 /\ words = <<>> /\ written = <<>>
         /\ ~buf_error /\ ~astray /\ ~posted_read /\ ~mismatch
         /\ ack = "INVALID"
         /\ Reading!Iterated(<<>>, req', 0) = <<>> /\ Writing!Iterated(<<>>, req', 0) = <<>>
         /\ Begins(<<>>, <<>>)
<1>1. Begins(<<>>, <<>>)
  BY DEF Begins
<1>. QED
  BY <1>1, ReadsUnrolled, WritesUnrolled DEF Between

LEMMA RequestHeld ==
  ASSUME NEW m \in 0 .. MaxRequests, req' \in [1 .. m -> Kinds]
  PROVE  req' \in Seq(Kinds) /\ Len(req') = m /\ Len(req') <= MaxRequests /\ m \in Nat
BY TransferAssumption, SeqDef, LenProperties

LEMMA TransferKeeps ==
  ASSUME IInv, NEW m \in 0 .. MaxRequests, NEW r \in [1 .. m -> Kinds], Transfer(r)
  PROVE  IInv'
<1>1. RequestTypeOK /\ At /\ Between /\ pc = "idle"
  BY DEF IInv, Transfer
<1>2. /\ pc' = "loop" /\ room' = RequestBytes /\ req' = r
      /\ UNCHANGED <<buf_error, kind, astray, i, posted_read, verify_write, ack, data, equal,
                     mismatch, matches, unposted, resp_count, words,
                     dap_port, dap_retry_count, dap_match_retry_count, posted, written>>
  BY DEF Transfer, flags, match, reply, config, access
<1>3. req' \in Seq(Kinds) /\ Len(req') = m /\ Len(req') <= MaxRequests /\ m \in Nat
  BY <1>2, RequestHeld
<1>4. /\ resp_count = 0 /\ words = <<>> /\ written = <<>>
      /\ ~posted_read
      /\ Reading!Iterated(<<>>, req', 0) = <<>> /\ Writing!Iterated(<<>>, req', 0) = <<>>
      /\ Begins(<<>>, <<>>)
  BY <1>1, Begun
<1>5. RequestTypeOK'
  <2>1. Flags'
    BY <1>1, <1>2, TypeParts DEF Flags
  <2>2. Values'
    BY <1>1, <1>2, <1>3, TypeParts, TransferAssumption DEF Values
  <2>. QED
    BY <2>1, <2>2, TypeNext
<1>6. At' /\ InBlock' /\ OwnWord' /\ MatchIsGenuine' /\ UnderWay'
  BY <1>1, <1>2, <1>3, <1>4 DEF At, InBlock, OwnWord, MatchIsGenuine, UnderWay
<1>7. ReadsSoFar'
  <2>1. Told' = 0 /\ PlainReads(Told)' = <<>>
    BY <1>2, <1>4 DEF Told, PlainReads
  <2>2. Answered'
    BY <1>2, <1>4, <2>1 DEF Answered
  <2>. QED
    BY <1>2, <2>2 DEF ReadsSoFar
<1>8. WritesSoFar'
  BY <1>2, <1>4 DEF WritesSoFar, Writes
<1>. QED
  BY <1>5, <1>6, <1>7, <1>8, MiddleNext DEF IInv

LEMMA TransferBlockKeeps ==
  ASSUME IInv, NEW m \in 0 .. MaxRequests, NEW k \in BlockKinds, TransferBlock(k, m)
  PROVE  IInv'
<1>1. RequestTypeOK /\ At /\ Between /\ pc = "idle"
  BY DEF IInv, TransferBlock
<1>2. /\ pc' = IF m = 0 THEN "done" ELSE "block"
      /\ room' = RequestBytes - 2 /\ req' = [j \in 1 .. m |-> k] /\ kind' = k
      /\ UNCHANGED <<buf_error, astray, i, posted_read, verify_write, ack, data, equal,
                     mismatch, matches, unposted, resp_count, words,
                     dap_port, dap_retry_count, dap_match_retry_count, posted, written>>
  BY DEF TransferBlock, flags, match, reply, config, access
<1>3. /\ req' \in Seq(Kinds) /\ Len(req') = m /\ Len(req') <= MaxRequests /\ m \in Nat
      /\ k \in Kinds
      /\ \A j \in 1 .. m : req'[j] = k
  <2>1. k \in Kinds
    BY DEF BlockKinds, Kinds
  <2>2. req' \in [1 .. m -> Kinds]
    BY <1>2, <2>1
  <2>. QED
    BY <1>2, <2>1, <2>2, RequestHeld
<1>4. /\ i = 0 /\ resp_count = 0 /\ words = <<>> /\ written = <<>>
      /\ ~posted_read /\ ack = "INVALID"
      /\ Reading!Iterated(<<>>, req', 0) = <<>> /\ Writing!Iterated(<<>>, req', 0) = <<>>
      /\ Begins(<<>>, <<>>)
  BY <1>1, Begun
<1>5. RequestTypeOK'
  <2>1. Flags'
    BY <1>1, <1>2, TypeParts DEF Flags
  <2>2. Values'
    BY <1>1, <1>2, <1>3, TypeParts, TransferAssumption DEF Values
  <2>. QED
    BY <2>1, <2>2, TypeNext
<1>6. ReadsSoFar' /\ WritesSoFar'
  <2>1. Told' = 0 /\ PlainReads(Told)' = <<>>
    BY <1>2, <1>4 DEF Told, PlainReads
  <2>2. Answered'
    BY <1>2, <1>4, <2>1 DEF Answered
  <2>. QED
    BY <1>2, <1>4, <2>2 DEF ReadsSoFar, WritesSoFar, Writes
<1>7. CASE m = 0
  <2>1. ReadsInOrder' /\ OKMeansDone' /\ CountTellsWrites'
    BY <1>2, <1>3, <1>4, <1>7 DEF ReadsInOrder, OKMeansDone, CountTellsWrites, PlainReads, Writes
  <2>. QED
    BY <1>2, <1>3, <1>4, <1>5, <1>7, <2>1, FinishedNext
<1>8. CASE m # 0
  <2>1. At' /\ InBlock' /\ OwnWord' /\ MatchIsGenuine' /\ UnderWay'
    BY <1>1, <1>2, <1>3, <1>4, <1>8 DEF At, InBlock, OwnWord, MatchIsGenuine, UnderWay
  <2>. QED
    BY <1>5, <1>6, <2>1, MiddleNext DEF IInv
<1>. QED
  BY <1>7, <1>8

\* A round in which the answer is OK adds the word of a read, but for the first
\* round of posted reads.
LEMMA BlockReadKeeps == IInv /\ BlockRead => IInv'
<1>. SUFFICES ASSUME IInv, BlockRead PROVE IInv'
  OBVIOUS
<1>. DEFINE n == resp_count
            rounds == IF NeedsPosted(kind) THEN Len(req) + 1 ELSE Len(req)
            k == IF i = Len(req) THEN "rdbuff" ELSE kind
            t == IF k = kind THEN i + 1 ELSE 0
            adds == ack' = "OK" /\ (NeedsPosted(kind) => i > 0)
<1>1. RequestTypeOK /\ At /\ InBlock /\ ReadsSoFar /\ WritesSoFar /\ pc = "block" /\ kind # "write"
  BY DEF IInv, BlockRead
<1>2. /\ n \in Nat /\ Len(req) \in Nat /\ i \in Nat /\ kind \in Kinds
      /\ kind \in {"dpRead", "apRead"} /\ IsPlainRead(kind) /\ ~posted_read
      /\ \A j \in 1 .. Len(req) : req[j] = kind
      /\ i <= Len(req) /\ n <= Len(req)
      /\ NeedsPosted(kind) => /\ Len(req) > 0
                              /\ n = IF i = 0 THEN 0 ELSE i - 1
                              /\ i > 0 => posted = i
      /\ ~NeedsPosted(kind) => i < Len(req) /\ n = i
      /\ Len(req) <= MaxRequests /\ MaxRequests \in Nat
  BY <1>1, Sizes DEF At, InBlock, BlockKinds, IsPlainRead
<1>3. PICK a \in Answers(k) : Word(k, t, TRUE, a) /\ ack' = a
  BY DEF BlockRead
<1>4. /\ pc' = IF ack' = "OK" /\ i + 1 < rounds THEN "block" ELSE "done"
      /\ IF adds THEN AddWord(data') /\ resp_count' = n + 1
                 ELSE UNCHANGED <<buf_error, resp_count, words>>
      /\ i' = i + 1
      /\ UNCHANGED <<req, room, kind, astray, posted_read, verify_write, equal, mismatch,
                     matches, unposted, dap_port, dap_retry_count, dap_match_retry_count>>
  BY DEF BlockRead, flags, match, config, reply
<1>5. /\ k \in Kinds \cup {"rdbuff"} /\ k # "write" /\ t \in Tokens
      /\ i < Len(req) => k = kind /\ t = i + 1
  BY <1>1, <1>2, Sizes DEF Tokens
<1>6. /\ ack' \in {"INVALID", "OK", "WAIT", "FAULT", "ERROR", "PROTOCOL"}
      /\ posted' \in Tokens /\ data' \in Tokens /\ written' = written
      /\ (ack' = "OK" /\ IsPosted(k)) => posted' = t
      /\ ack' = "OK" => data' = Returned(k, t)
  BY <1>1, <1>3, <1>5, WordDone
<1>7. NeedsPosted(kind) <=> IsPosted(kind)
  BY <1>1, <1>2, Posts
<1>8. adds => data' = n + 1 /\ n + 1 <= Len(req)
  <2>1. CASE NeedsPosted(kind)
    BY <1>2, <1>6, <1>7, <2>1 DEF Returned
  <2>2. CASE ~NeedsPosted(kind)
    BY <1>2, <1>5, <1>6, <1>7, <2>2 DEF Returned
  <2>. QED
    BY <2>1, <2>2
<1>9. (ack' = "OK" /\ NeedsPosted(kind) /\ i < Len(req)) => posted' = i + 1
  BY <1>5, <1>6, <1>7
<1>10. /\ words' \in Seq(Tokens) /\ Len(words') <= MaxWords /\ buf_error' \in BOOLEAN
       /\ resp_count' \in 0 .. MaxRequests /\ resp_count' <= Len(req)
       /\ ~astray => /\ Begins(words', PlainReads(resp_count'))
                     /\ buf_error' \/ words' = PlainReads(resp_count')
                     /\ written' = Writes(resp_count')
  <2>1. ASSUME ~astray
        PROVE  /\ Begins(words, PlainReads(n))
               /\ buf_error \/ words = PlainReads(n)
               /\ PlainReads(n) \in Seq(Nat)
               /\ written = Writes(n)
    <3>1. Told = n /\ Answered
      BY <1>1, <1>2, <2>1 DEF Told, ReadsSoFar, Live
    <3>. QED
      BY <1>1, <1>2, <2>1, <3>1, ReadsGrow DEF Answered, PlainReads, WritesSoFar
  <2>2. CASE adds
    <3>1. AddWord(data') /\ resp_count' = n + 1 /\ data' = n + 1 /\ n + 1 <= Len(req)
      BY <1>4, <1>8, <2>2
    <3>2. ASSUME ~astray
          PROVE  /\ PlainReads(n + 1) = Append(PlainReads(n), data')
                 /\ Writes(n + 1) = Writes(n)
      <4>1. n + 1 \in 1 .. Len(req)
        BY <1>2, <3>1
      <4>2. req[n + 1] = kind
        BY <1>2, <4>1
      <4>. QED
        BY <1>1, <1>2, <3>1, <4>2, ReadsUnrolled, WritesUnrolled DEF PlainReads, Writes
    <3>3. buf_error' \in BOOLEAN
      BY <1>1, <3>1, TypeParts DEF AddWord, Flags
    <3>4. /\ words' \in Seq(Tokens) /\ Len(words') <= MaxWords
          /\ ~astray => /\ Begins(words', PlainReads(n + 1))
                        /\ buf_error' \/ words' = PlainReads(n + 1)
      BY <1>1, <1>6, <2>1, <3>1, <3>2, WordAdded
    <3>. QED
      BY <1>2, <1>6, <2>1, <3>1, <3>2, <3>3, <3>4
  <2>3. CASE ~adds
    <3>1. UNCHANGED <<buf_error, resp_count, words>>
      BY <1>4, <2>3
    <3>2. buf_error \in BOOLEAN
      BY <1>1, TypeParts DEF Flags
    <3>. QED
      BY <1>1, <1>2, <1>6, <2>1, <3>1, <3>2 DEF RequestTypeOK
  <2>. QED
    BY <2>2, <2>3
<1>11. RequestTypeOK'
  <2>1. Flags'
    BY <1>1, <1>4, <1>10, TypeParts, Zenon DEF Flags
  <2>2. Values'
    <3>1. i' \in 0 .. MaxRequests + 1
      BY <1>2, <1>4
    <3>2. written' \in Seq(Tokens)
      BY <1>1, <1>6 DEF RequestTypeOK
    <3>. QED
      BY <1>1, <1>4, <1>6, <1>10, <3>1, <3>2, TypeParts DEF Values
  <2>. QED
    BY <2>1, <2>2, TypeNext
<1>12. CASE ack' = "OK" /\ i + 1 < rounds
  <2>1. pc' = "block"
    BY <1>4, <1>12
  <2>2. At' /\ OwnWord' /\ MatchIsGenuine' /\ UnderWay'
    BY <1>1, <1>2, <1>4, <1>10, <2>1 DEF At, OwnWord, MatchIsGenuine, UnderWay
  <2>3. InBlock'
    <3>1. NeedsPosted(kind)' <=> NeedsPosted(kind)
      BY <1>4 DEF NeedsPosted
    <3>2. CASE NeedsPosted(kind)
      <4>1. i' = i + 1 /\ i + 1 <= Len(req) /\ resp_count' = i /\ posted' = i + 1
        BY <1>2, <1>4, <1>9, <1>12, <3>2
      <4>. QED
        BY <1>2, <1>4, <2>1, <3>1, <3>2, <4>1 DEF InBlock, BlockKinds
    <3>3. CASE ~NeedsPosted(kind)
      <4>1. i' = i + 1 /\ i + 1 < Len(req) /\ resp_count' = i + 1
        BY <1>2, <1>4, <1>12, <3>3
      <4>. QED
        BY <1>2, <1>4, <2>1, <3>1, <3>3, <4>1 DEF InBlock, BlockKinds
    <3>. QED
      BY <3>2, <3>3
  <2>4. ReadsSoFar'
    <3>1. ASSUME ~astray' PROVE Answered'
      <4>1. Told' = resp_count'
        BY <1>2, <1>4 DEF Told
      <4>. QED
        BY <1>2, <1>4, <1>10, <3>1, <4>1, AnsweredNext
    <3>. QED
      BY <2>1, <3>1 DEF ReadsSoFar
  <2>5. WritesSoFar'
    BY <1>4, <1>10 DEF WritesSoFar, Writes
  <2>. QED
    BY <1>11, <2>2, <2>3, <2>4, <2>5, MiddleNext DEF IInv
<1>13. CASE ~(ack' = "OK" /\ i + 1 < rounds)
  <2>1. pc' = "done"
    BY <1>4, <1>13
  <2>2. ReadsInOrder'
    BY <1>4, <1>10, <1>11, InOrderNext
  <2>3. OKMeansDone'
    <3>1. ack' = "OK" => resp_count' = Len(req)
      <4>1. CASE NeedsPosted(kind)
        BY <1>2, <1>4, <1>13, <4>1
      <4>2. CASE ~NeedsPosted(kind)
        BY <1>2, <1>4, <1>13, <4>2
      <4>. QED
        BY <4>1, <4>2
    <3>. QED
      BY <1>4, <1>10, <3>1 DEF OKMeansDone, PlainReads, Writes
  <2>4. CountTellsWrites'
    BY <1>4, <1>10 DEF CountTellsWrites, Writes
  <2>. QED
    BY <1>4, <1>10, <1>11, <2>1, <2>2, <2>3, <2>4, FinishedNext
<1>. QED
  BY <1>12, <1>13

LEMMA BlockWriteKeeps == IInv /\ BlockWrite => IInv'
<1>. SUFFICES ASSUME IInv, BlockWrite PROVE IInv'
  OBVIOUS
<1>. DEFINE n == resp_count
            t == IF CanGet(4) THEN i + 1 ELSE 0
<1>1. RequestTypeOK /\ At /\ InBlock /\ ReadsSoFar /\ WritesSoFar /\ pc = "block" /\ kind = "write"
  BY DEF IInv, BlockWrite
<1>2. /\ n \in Nat /\ Len(req) \in Nat /\ i = n /\ n < Len(req) /\ ~posted_read
      /\ \A j \in 1 .. Len(req) : req[j] = "write"
      /\ Len(req) <= MaxRequests /\ MaxRequests \in Nat
      /\ ~NeedsPosted(kind)
  <2>1. ~NeedsPosted(kind)
    BY <1>1 DEF NeedsPosted
  <2>. QED
    BY <1>1, <2>1, Sizes DEF At, InBlock
<1>3. /\ room' \in 0 .. RequestBytes /\ buf_error' \in BOOLEAN /\ astray' \in BOOLEAN
      /\ ~astray' => ~astray /\ ~buf_error /\ ~buf_error' /\ CanGet(4)
  BY <1>1, WordGot DEF BlockWrite
<1>4. PICK a \in Answers(kind) : Word(kind, t, FALSE, a) /\ ack' = a
  BY DEF BlockWrite
<1>5. t \in Tokens /\ (~astray' => t = n + 1)
  BY <1>1, <1>2, <1>3 DEF Tokens
<1>6. /\ ack' \in {"INVALID", "OK", "WAIT", "FAULT", "ERROR", "PROTOCOL"}
      /\ posted' \in Tokens /\ data' \in Tokens /\ written' \in Seq(Tokens)
      /\ ack' = "OK" => written' = Append(written, t)
      /\ ack' # "OK" =>
            \/ written' = written
            \/ ack' \in {"PROTOCOL", "INVALID"} /\ written' = Append(written, t)
  <2>1. kind \in Kinds
    BY <1>1, Sizes
  <2>. QED
    BY <1>1, <1>4, <1>5, <2>1, WordDone
<1>7. /\ IF ack' = "OK"
           THEN /\ pc' = IF i + 1 < Len(req) THEN "block" ELSE "verify"
                /\ resp_count' = n + 1
           ELSE pc' = "done" /\ UNCHANGED resp_count
      /\ i' = i + 1
      /\ UNCHANGED <<req, kind, posted_read, verify_write, equal, mismatch, matches, unposted,
                     words, dap_port, dap_retry_count, dap_match_retry_count>>
  BY DEF BlockWrite, flags, match, config
<1>8. ASSUME ~astray'
      PROVE  /\ Begins(words, PlainReads(n))
             /\ buf_error \/ words = PlainReads(n)
             /\ PlainReads(n + 1) = PlainReads(n)
             /\ written = Writes(n) /\ Writes(n + 1) = Append(Writes(n), t)
  <2>1. Told = n /\ Answered /\ written = Writes(n)
    BY <1>1, <1>2, <1>3, <1>8 DEF Told, ReadsSoFar, WritesSoFar, Live
  <2>2. req[n + 1] = "write"
    BY <1>2
  <2>3. PlainReads(n + 1) = PlainReads(n) /\ Writes(n + 1) = Append(Writes(n), t)
    BY <1>2, <1>5, <1>8, <2>2, ReadsUnrolled, WritesUnrolled DEF PlainReads, Writes, IsPlainRead
  <2>. QED
    BY <2>1, <2>3 DEF Answered
<1>9. RequestTypeOK'
  <2>1. Flags'
    BY <1>1, <1>3, <1>7, TypeParts, Zenon DEF Flags
  <2>2. Values'
    <3>1. i' \in 0 .. MaxRequests + 1 /\ resp_count' \in 0 .. MaxRequests
      BY <1>2, <1>7
    <3>2. pc' \in {"block", "verify", "done"}
      BY <1>7
    <3>. QED
      BY <1>1, <1>3, <1>6, <1>7, <3>1, <3>2, TypeParts DEF Values
  <2>. QED
    BY <2>1, <2>2, TypeNext
<1>10. CASE ack' = "OK"
  <2>1. /\ pc' = IF n + 1 < Len(req) THEN "block" ELSE "verify"
        /\ resp_count' = n + 1 /\ i' = n + 1
    BY <1>2, <1>7, <1>10
  <2>2. At' /\ OwnWord' /\ MatchIsGenuine' /\ UnderWay'
    BY <1>1, <1>2, <1>7, <2>1 DEF At, OwnWord, MatchIsGenuine, UnderWay
  <2>3. InBlock'
    <3>1. ~NeedsPosted(kind)'
      BY <1>1, <1>7 DEF NeedsPosted
    <3>. QED
      BY <1>1, <1>2, <1>7, <2>1, <3>1 DEF InBlock, BlockKinds
  <2>4. ReadsSoFar'
    <3>1. ASSUME ~astray' PROVE Answered'
      <4>1. Told' = n + 1
        BY <1>2, <1>7, <2>1 DEF Told
      <4>. QED
        BY <1>2, <1>3, <1>7, <1>8, <3>1, <4>1, AnsweredNext
    <3>. QED
      BY <2>1, <3>1 DEF ReadsSoFar
  <2>5. WritesSoFar'
    BY <1>6, <1>7, <1>8, <1>10, <2>1 DEF WritesSoFar, Writes
  <2>. QED
    BY <1>9, <2>2, <2>3, <2>4, <2>5, MiddleNext DEF IInv
<1>11. CASE ack' # "OK"
  <2>1. pc' = "done" /\ resp_count' = n
    BY <1>7, <1>11
  <2>2. ReadsInOrder'
    BY <1>2, <1>7, <1>8, <1>9, <2>1, InOrderNext
  <2>3. OKMeansDone'
    BY <1>11 DEF OKMeansDone
  <2>4. CountTellsWrites'
    BY <1>2, <1>6, <1>7, <1>8, <1>11, <2>1 DEF CountTellsWrites, Writes
  <2>. QED
    BY <1>2, <1>7, <1>9, <2>1, <2>2, <2>3, <2>4, FinishedNext
<1>. QED
  BY <1>10, <1>11

LEMMA BlockVerifyKeeps == IInv /\ BlockVerify => IInv'
<1>. SUFFICES ASSUME IInv, BlockVerify PROVE IInv'
  OBVIOUS
<1>. DEFINE n == resp_count
<1>1. RequestTypeOK /\ At /\ InBlock /\ ReadsSoFar /\ WritesSoFar /\ pc = "verify"
  BY DEF IInv, BlockVerify
<1>2. n \in Nat /\ n = Len(req) /\ ~posted_read /\ 0 \in Tokens
  BY <1>1, Sizes DEF At, InBlock
<1>3. PICK a \in Answers("rdbuff") : Word("rdbuff", 0, FALSE, a) /\ ack' = a
  BY DEF BlockVerify
<1>4. /\ ack' \in {"INVALID", "OK", "WAIT", "FAULT", "ERROR", "PROTOCOL"}
      /\ posted' \in Tokens /\ data' \in Tokens /\ written' = written
  <2>1. "rdbuff" \in Kinds \cup {"rdbuff"} /\ FALSE \in BOOLEAN
    OBVIOUS
  <2>. QED
    BY <1>1, <1>2, <1>3, <2>1, WordDone
<1>5. /\ pc' = "done"
      /\ UNCHANGED <<req, room, buf_error, kind, astray, i, posted_read, verify_write, equal,
                     mismatch, matches, unposted, resp_count, words,
                     dap_port, dap_retry_count, dap_match_retry_count>>
  BY DEF BlockVerify, parser, flags, match, reply, config
<1>6. ASSUME ~astray
      PROVE  /\ Begins(words, PlainReads(n))
             /\ buf_error \/ words = PlainReads(n)
             /\ written = Writes(n)
  <2>1. Told = n /\ Answered
    BY <1>1, <1>2, <1>6 DEF Told, ReadsSoFar, Live
  <2>. QED
    BY <1>1, <1>6, <2>1 DEF Answered, WritesSoFar
<1>7. RequestTypeOK'
  <2>1. Flags'
    BY <1>1, <1>5, TypeParts DEF Flags
  <2>2. Values'
    BY <1>1, <1>4, <1>5, TypeParts DEF Values
  <2>. QED
    BY <2>1, <2>2, TypeNext
<1>8. ReadsInOrder'
  BY <1>2, <1>5, <1>6, <1>7, InOrderNext
<1>9. OKMeansDone' /\ CountTellsWrites'
  BY <1>2, <1>4, <1>5, <1>6 DEF OKMeansDone, CountTellsWrites, PlainReads, Writes
<1>. QED
  BY <1>2, <1>5, <1>7, <1>8, <1>9, FinishedNext

(***************************************************************************)
(* The invariant is kept: between the requests.                            *)
(***************************************************************************)

\* A state in which nothing is left of a request.
LEMMA Empty ==
  /\ RequestTypeOK /\ pc = "idle" /\ req = <<>> /\ i = 0 /\ resp_count = 0 /\ words = <<>>
  /\ written = <<>> /\ ~buf_error /\ ~astray /\ ~posted_read /\ ~mismatch /\ ack = "INVALID"
  => IInv
<1>. SUFFICES ASSUME RequestTypeOK, pc = "idle", req = <<>>, i = 0, resp_count = 0, words = <<>>,
                     written = <<>>, ~buf_error, ~astray, ~posted_read, ~mismatch,
                     ack = "INVALID"
              PROVE  IInv
  OBVIOUS
<1>1. PlainReads(0) = <<>> /\ Writes(0) = <<>>
  BY ReadsUnrolled, WritesUnrolled DEF PlainReads, Writes
<1>2. Between /\ At /\ InBlock /\ ReadsSoFar /\ OwnWord
  BY DEF Between, At, InBlock, ReadsSoFar, Live, OwnWord
<1>3. WritesSoFar /\ ReadsInOrder /\ OKMeansDone /\ CountTellsWrites /\ MatchIsGenuine
  BY <1>1 DEF WritesSoFar, ReadsInOrder, OKMeansDone, CountTellsWrites, MatchIsGenuine
<1>. QED
  BY <1>2, <1>3 DEF IInv

LEMMA EmptyNext ==
  ASSUME RequestTypeOK', pc' = "idle", req' = <<>>, i' = 0, resp_count' = 0, words' = <<>>,
         written' = <<>>, ~buf_error', ~astray', ~posted_read', ~mismatch', ack' = "INVALID"
  PROVE  IInv'
<1>1. (pc = "idle" /\ req = <<>> /\ i = 0 /\ resp_count = 0 /\ words = <<>>)'
  OBVIOUS
<1>2. (/\ RequestTypeOK /\ pc = "idle" /\ req = <<>> /\ i = 0 /\ resp_count = 0 /\ words = <<>>
       /\ written = <<>> /\ ~buf_error /\ ~astray /\ ~posted_read /\ ~mismatch
       /\ ack = "INVALID")'
  BY <1>1
<1>. QED
  BY <1>2, Empty, PTL

LEMMA InitIInv == Init => IInv
<1>. SUFFICES ASSUME Init PROVE IInv
  OBVIOUS
<1>1. Flags
  BY DEF Init, Flags
<1>2. Values
  <2>1. 0 \in 0 .. dap_match_retry_count /\ dap_match_retry_count \in MatchCounts
    BY TransferAssumption DEF Init
  <2>. QED
    BY <2>1, TransferAssumption, EmptySeq DEF Init, Values, Kinds, Tokens
<1>. QED
  BY <1>1, <1>2, TypeParts, Empty DEF Init

LEMMA RespondKeeps == IInv /\ Respond => IInv'
<1>. SUFFICES ASSUME IInv, Respond PROVE IInv'
  OBVIOUS
<1>1. RequestTypeOK
  BY DEF IInv
<1>2. Flags'
  BY DEF Respond, Flags
<1>3. Values'
  <2>1. \E m \in MatchCounts : matches' \in 0 .. m
    BY <1>1, TransferAssumption DEF Respond, RequestTypeOK
  <2>2. <<>> \in Seq(Kinds) /\ <<>> \in Seq(Tokens) /\ Len(<<>>) = 0
    BY EmptySeq
  <2>. QED
    BY <1>1, <2>1, <2>2, TransferAssumption, TypeParts DEF Respond, Values, Kinds, Tokens, config
<1>4. RequestTypeOK'
  BY <1>2, <1>3, TypeNext
<1>. QED
  BY <1>4, EmptyNext DEF Respond

\* The other requests leave the state of the transfers alone.
LEMMA OthersKeep ==
  ASSUME IInv,
         \/ Refused
         \/ \E x \in RetryCounts, y \in MatchCounts : TransferConfigure(x, y)
         \/ \E p \in {"disabled", "swd", "jtag"} : Connect(p)
  PROVE  IInv'
<1>1. RequestTypeOK /\ At /\ Between /\ pc = "idle"
  BY DEF IInv, Refused, TransferConfigure, Connect
<1>2. /\ pc' \in {"idle", "done"}
      /\ UNCHANGED <<req, room, buf_error, kind, astray, i, posted_read, verify_write, ack, data,
                     equal, mismatch, matches, unposted, resp_count, words, posted, written>>
      /\ dap_retry_count' \in RetryCounts /\ dap_match_retry_count' \in MatchCounts
      /\ dap_port' \in {"disabled", "swd", "jtag"}
  <2>1. CASE Refused
    BY <1>1, <2>1 DEF Refused, parser, flags, match, reply, access, config, RequestTypeOK
  <2>2. CASE \E x \in RetryCounts, y \in MatchCounts : TransferConfigure(x, y)
    BY <1>1, <2>2 DEF TransferConfigure, parser, flags, match, reply, access, RequestTypeOK
  <2>3. CASE \E p \in {"disabled", "swd", "jtag"} : Connect(p)
    BY <1>1, <2>3 DEF Connect, parser, flags, match, reply, access, RequestTypeOK
  <2>. QED
    BY <2>1, <2>2, <2>3
<1>3. /\ req = <<>> /\ i = 0 /\ resp_count = 0 /\ words = <<>> /\ written = <<>>
      /\ ~buf_error /\ ~astray /\ ~posted_read /\ ~mismatch
      /\ ack = "INVALID"
      /\ Reading!Iterated(<<>>, req', 0) = <<>> /\ Writing!Iterated(<<>>, req', 0) = <<>>
  BY <1>1, Begun
<1>4. RequestTypeOK'
  <2>1. Flags'
    BY <1>1, <1>2, TypeParts DEF Flags
  <2>2. Values'
    BY <1>1, <1>2, TypeParts DEF Values
  <2>. QED
    BY <2>1, <2>2, TypeNext
<1>5. CASE pc' = "idle"
  BY <1>2, <1>3, <1>4, <1>5, EmptyNext
<1>6. CASE pc' = "done"
  <2>1. ReadsInOrder' /\ OKMeansDone' /\ CountTellsWrites'
    BY <1>2, <1>3, <1>6 DEF ReadsInOrder, OKMeansDone, CountTellsWrites, PlainReads, Writes
  <2>. QED
    BY <1>2, <1>3, <1>4, <1>6, <2>1, FinishedNext
<1>. QED
  BY <1>2, <1>5, <1>6

LEMMA StutterKeeps == IInv /\ UNCHANGED vars => IInv'
BY DEF IInv, RequestTypeOK, Between, At, InBlock, ReadsSoFar, Answered, Told, Live, WritesSoFar, OwnWord,
       ReadsInOrder, OKMeansDone, CountTellsWrites, MatchIsGenuine, PlainReads, Writes,
       NeedsPosted, vars, parser, flags, match, reply, config, access

\* A round that is answered with WAIT changes nothing but the count of rounds.
LEMMA RetryKeeps == IInv /\ Retry => IInv'
BY DEF IInv, RequestTypeOK, Between, At, InBlock, ReadsSoFar, Answered, Told, Live, WritesSoFar,
       OwnWord, ReadsInOrder, OKMeansDone, CountTellsWrites, MatchIsGenuine, PlainReads, Writes,
       NeedsPosted, Retry, parser, flags, match, reply, config

LEMMA NextKeeps == IInv /\ [Next]_vars => IInv'
<1>. SUFFICES ASSUME IInv, [Next]_vars PROVE IInv'
  OBVIOUS
<1>1. CASE Step
  BY <1>1, RetryKeeps, LoopKeeps, PostedKeeps, MatchKeeps, MatchingKeeps, MatchedKeeps, PostKeeps,
     DirectKeeps, WriteKeeps, AfterKeeps, BlockReadKeeps, BlockWriteKeeps, BlockVerifyKeeps,
     RespondKeeps DEF Step
<1>2. CASE Request
  BY <1>2, TransferKeeps, TransferBlockKeeps, OthersKeep DEF Request
<1>. QED
  BY <1>1, <1>2, StutterKeeps DEF Next

(***************************************************************************)
(* The rounds of dap_transfer_word.                                        *)
(***************************************************************************)

\* No round is left over for the next operation, and the count of rounds stays below the
\* limit, which changes between requests only.
Rounds ==
    /\ tries \in Nat
    /\ tries = 0 \/ (tries < dap_retry_count /\ pc # "idle")

LEMMA RoundsInit == Init => Rounds
BY DEF Init, Rounds

LEMMA RoundsStep == Rounds /\ [Next]_vars => Rounds'
<1>. SUFFICES ASSUME Rounds, [Next]_vars PROVE Rounds'
  OBVIOUS
<1>1. CASE Retry
  BY <1>1 DEF Retry, Operating, Rounds, config
<1>2. CASE tries' = 0
  BY <1>2 DEF Rounds
<1>3. CASE /\ UNCHANGED <<tries, dap_retry_count>>
           /\ pc' # "idle" \/ pc = "idle"
  BY <1>3 DEF Rounds
<1>4. CASE Posted \/ Matching \/ Post \/ Direct \/ BlockRead \/ BlockWrite \/ BlockVerify \/ Respond
  <2>1. tries' = 0
    BY <1>4 DEF Posted, Matching, Post, Direct, BlockRead, BlockWrite, BlockVerify, Respond, Word
  <2>. QED
    BY <2>1, <1>2
<1>5. CASE Loop \/ Matched
  <2>1. UNCHANGED <<tries, dap_retry_count>>
    BY <1>5 DEF Loop, Matched, access, config
  <2>2. pc # "idle" /\ pc' # "idle"
    BY <1>5 DEF Loop, Matched, Label
  <2>. QED
    BY <2>1, <2>2, <1>3
<1>6. CASE Match \/ Write \/ After
  <2>1. tries' = 0 \/ UNCHANGED tries
    BY <1>6 DEF Match, Write, After, Word, access
  <2>2. UNCHANGED dap_retry_count /\ pc' # "idle"
    BY <1>6 DEF Match, Write, After, config
  <2>. QED
    BY <2>1, <2>2, <1>2, <1>3
<1>7. CASE Request
  <2>1. UNCHANGED tries /\ pc = "idle"
    BY <1>7 DEF Request, Transfer, TransferBlock, Refused, TransferConfigure, Connect, access
  <2>. QED
    BY <2>1 DEF Rounds
<1>8. CASE UNCHANGED vars
  BY <1>8, <1>3 DEF vars, access, config
<1>. QED
  BY <1>1, <1>4, <1>5, <1>6, <1>7, <1>8 DEF Next, Step

(***************************************************************************)
(* The theorems.                                                           *)
(***************************************************************************)

\* Every state the handlers reach is well-formed: no list of the response is
\* longer than its buffer, no count exceeds that of the request, and no operation is
\* tried more often than asked.
THEOREM TypeCorrect == Spec => []TypeOK
<1>1. IInv /\ Rounds => TypeOK
  BY DEF IInv, Rounds, TypeOK
<1>. QED
  BY <1>1, InitIInv, NextKeeps, RoundsInit, RoundsStep, PTL DEF Spec

\* The data words of a response are those of the reads of its request, in their
\* order, for every mixture of posted reads, other reads, writes and matches.
THEOREM InRequestOrder == Spec => []ReadsInOrder
<1>1. IInv => ReadsInOrder
  BY DEF IInv
<1>. QED
  BY <1>1, InitIInv, NextKeeps, PTL DEF Spec

\* A response with ack OK means that each read has its word in it and each write
\* has reached the target, for every length of a request and every retry count.
THEOREM OKIsDone == Spec => []OKMeansDone
<1>1. IInv => OKMeansDone
  BY DEF IInv
<1>. QED
  BY <1>1, InitIInv, NextKeeps, PTL DEF Spec

\* From the count of a response, whatever its ack, the host knows which writes
\* the target has got.
THEOREM CountTells == Spec => []CountTellsWrites
<1>1. IInv => CountTellsWrites
  BY DEF IInv
<1>. QED
  BY <1>1, InitIInv, NextKeeps, PTL DEF Spec

\* A value match that is passed was decided on a word read for it.
THEOREM GenuineMatch == Spec => []MatchIsGenuine
<1>1. IInv => MatchIsGenuine
  BY DEF IInv
<1>. QED
  BY <1>1, InitIInv, NextKeeps, PTL DEF Spec
=============================================================================
