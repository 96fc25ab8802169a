------------------------------- MODULE Metering -----------------------------
(***************************************************************************)
(* What one request is taken to cost: before, the amount checkBudget asks  *)
(* the ledger to hold, with the output cap it lowers to what is left; and  *)
(* after, the amount logCompletedUsageAsync charges, from what the         *)
(* provider's answer says of itself.  An answer is read from the bytes on  *)
(* their way to the client (stream_counter.go), in whatever pieces they    *)
(* come, and one that is no event stream also as a whole before that       *)
(* (provider_usage.go).                                                    *)
(*                                                                         *)
(* Prices are looked up in the PricingEngine, which syncs, reloads and     *)
(* operators change at any time (Catalog): request.rate is what it says at *)
(* the first look-up, and each later one may find another rate, or none.   *)
(*                                                                         *)
(* A body is a sequence of pieces: <<e, 1>> and <<e, 2>> are the halves of *)
(* the JSON of event e, and Newline ends a line.  An event reports usage   *)
(* (out, in, cost; 0 is not reported) and carries text, counted in tokens; *)
(* early says that its usage object lies in its first half, where          *)
(* extractUsageFromTail finds it though the rest is missing.               *)
(*                                                                         *)
(* An operator named Bug... is a wrong version of the one that follows it, *)
(* used to see a property fail; no specification refers to it.             *)
(***************************************************************************)
EXTENDS Cost, Totals, Sequences, FiniteSetsExt

CONSTANTS
    Requests,   \* what a client may ask: [rate, input, caps, available]
    Answers,    \* what a provider may say: [kind, ok, split, events]
    Repriced,   \* what a model's price may be changed to: rates or NoRate
    NoRate,     \* the engine has no price for the model
    DefaultMax  \* TOKENGUARD_DEFAULT_MAX_OUTPUT_TOKENS

\* The fields of a request's JSON that may cap its output.
CapFields == {"max_completion_tokens", "max_tokens", "max_output_tokens"}
IsCaps(c) == DOMAIN c \subseteq CapFields /\ c \in [DOMAIN c -> Amount]

IsQuery(r) ==
    /\ r \in [rate : Rates, input : Amount, caps : {r.caps}, available : Amount]
    /\ IsCaps(r.caps)
Events == [out : Nat, in : Nat, cost : Nat, text : Nat, early : BOOLEAN]

ASSUME RequestsAssumption == (\A r \in Requests : IsQuery(r)) /\ DefaultMax \in Amount
ASSUME AnswersAssumption ==
    Answers \subseteq [kind : {"sse", "json", "other"}, ok : BOOLEAN, split : BOOLEAN,
                       events : Seq(Events)]
ASSUME RepricedAssumption == Repriced \subseteq Rates \cup {NoRate} /\ NoRate \notin Rates

VARIABLES
    stage,      \* asked, refused, held, answered or billed
    request,
    quoted,     \* the price checkBudget looked up last
    hold,       \* the estimate ReserveBudget is asked to hold
    reserved,   \* the output tokens it is for
    forwarded,  \* the caps of the body that goes to the provider
    answer,
    body,       \* the pieces of the answer's body that TokenGuard has
    sent,       \* how many of them have been written to the client
    counted,    \* how many of those the counter is through with
    counter,    \* the sseTokenCounter
    capture,    \* the providerUsageCapture
    report,     \* the StreamTokenEvent that is charged
    charged,    \* the price logCompletedUsageAsync looks up
    bill        \* the actual cost

askVars == <<request, quoted, hold, reserved, forwarded>>
billVars == <<report, charged, bill>>
meteringVars == <<stage, askVars, answer, body, sent, counted, counter, capture, billVars>>

Newline == <<0, 0>>
NoUsage == [out |-> 0, in |-> 0, cost |-> 0]
NewCounter == [line |-> <<>>, data |-> <<>>, json |-> <<>>, streamed |-> FALSE,
               out |-> 0, in |-> 0, cost |-> 0]
NoAnswer == [kind |-> "other", ok |-> FALSE, split |-> FALSE, events |-> <<>>]

MeteringInit ==
    /\ stage = "asked"
    /\ request \in Requests
    /\ quoted = request.rate /\ hold = 0 /\ reserved = 0 /\ forwarded = request.caps
    /\ answer = NoAnswer /\ body = <<>> /\ sent = 0 /\ counted = 0
    /\ counter = NewCounter /\ capture = NoUsage
    /\ report = NoUsage /\ charged = NoRate /\ bill = 0

-----------------------------------------------------------------------------
(* Before: the hold *)

\* What a look-up finds: the price of the first one, or what it has become.
PricesNow == Repriced \cup {request.rate}

\* analyzeRequest: the first of the caps there are, or the default.
AskedTokens(caps) ==
    IF "max_completion_tokens" \in DOMAIN caps THEN caps["max_completion_tokens"]
    ELSE IF "max_tokens" \in DOMAIN caps THEN caps["max_tokens"]
    ELSE IF "max_output_tokens" \in DOMAIN caps THEN caps["max_output_tokens"]
    ELSE DefaultMax

BugRewritten(caps, n) ==
    [f \in DOMAIN caps \cup {"max_tokens"} |-> IF f = "max_tokens" THEN n ELSE caps[f]]

\* clampMaxOutputTokens: every cap there is, or max_tokens.
Rewritten(caps, n) == [f \in IF DOMAIN caps = {} THEN {"max_tokens"} ELSE DOMAIN caps |-> n]

MaxOutput == AskedTokens(request.caps)
AsAsked == Estimate(request.rate, request.input, MaxOutput)
Clamped == ClampedTokens(request.rate, request.input, MaxOutput, request.available)

\* clampEstimateToBudget estimates again, at the price p there is by then.
StillFits(p) ==
    /\ p # NoRate
    /\ Estimable(p, request.input, Clamped)
    /\ Estimate(p, request.input, Clamped) <= request.available

\* checkBudget, on a personal budget: no price for so many tokens, nothing
\* left, or not enough for the input and an output token.
Refuse ==
    /\ stage = "asked"
    /\ \/ ~Estimable(request.rate, request.input, MaxOutput)
       \/ request.available <= 0
       \/ /\ AsAsked > request.available
          /\ ~Clampable(request.rate, request.input, MaxOutput, request.available)
    /\ stage' = "refused"
    /\ UNCHANGED <<askVars, answer, body, sent, counted, counter, capture, billVars>>

\* The estimate fits.
Hold ==
    /\ stage = "asked"
    /\ Estimable(request.rate, request.input, MaxOutput)
    /\ request.available > 0
    /\ AsAsked <= request.available
    /\ hold' = AsAsked
    /\ reserved' = MaxOutput
    /\ forwarded' = request.caps
    /\ stage' = "held"
    /\ UNCHANGED <<request, quoted, answer, body, sent, counted, counter, capture, billVars>>

\* It does not, but a lower output cap would do.
ClampTried ==
    /\ stage = "asked"
    /\ Estimable(request.rate, request.input, MaxOutput)
    /\ request.available > 0
    /\ AsAsked > request.available
    /\ Clampable(request.rate, request.input, MaxOutput, request.available)

\* The lower cap goes to the provider ...
HoldClamped ==
    /\ ClampTried
    /\ \E p \in PricesNow :
          /\ StillFits(p)
          /\ hold' = Estimate(p, request.input, Clamped)
          /\ quoted' = p
    /\ reserved' = Clamped
    /\ forwarded' = Rewritten(request.caps, Clamped)
    /\ stage' = "held"
    /\ UNCHANGED <<request, answer, body, sent, counted, counter, capture, billVars>>

\* ... unless at the price there is by then even that is too much.
RefuseClamped ==
    /\ ClampTried
    /\ \E p \in PricesNow : ~StillFits(p) /\ quoted' = p
    /\ stage' = "refused"
    /\ UNCHANGED <<request, hold, reserved, forwarded>>
    /\ UNCHANGED <<answer, body, sent, counted, counter, capture, billVars>>

-----------------------------------------------------------------------------
(* What an answer says *)

Whole(data, e) == data = <<<<e, 1>>, <<e, 2>>>>
Cut(data, e) == data = <<<<e, 1>>>>
Legible(events, data) ==
    {e \in DOMAIN events : Whole(data, e) \/ (Cut(data, e) /\ events[e].early)}

\* extractUsageLoose and extractStreamText.
UsageIn(events, data) ==
    IF Legible(events, data) = {} THEN NoUsage
    ELSE LET e == events[CHOOSE e \in Legible(events, data) : TRUE]
         IN  [out |-> e.out, in |-> e.in, cost |-> e.cost]
TextIn(events, data) ==
    IF \E e \in DOMAIN events : Whole(data, e)
    THEN events[CHOOSE e \in DOMAIN events : Whole(data, e)].text
    ELSE 0

Latest(new, old) == IF new > 0 THEN new ELSE old

\* processProviderUsage, up to its fallback, and store and applyTo: what is
\* reported replaces what was.
Take(c, u) == [c EXCEPT !.out = Latest(u.out, @), !.in = Latest(u.in, @),
                        !.cost = Latest(u.cost, @)]

BugProcessEvent(c) ==
    LET u == UsageIn(answer.events, c.data)
        t == Take(c, u)
    IN  [t EXCEPT !.data = <<>>, !.out = @ + TextIn(answer.events, c.data)]

\* An event with a report is not also counted by its text.
ProcessEvent(c) ==
    LET u == UsageIn(answer.events, c.data)
        t == Take(c, u)
    IN  [t EXCEPT !.data = <<>>,
                  !.out = IF u.out > 0 THEN @ ELSE @ + TextIn(answer.events, c.data)]

BugKeepsLine(c) ==
    IF c.line = <<>> THEN ProcessEvent(c) ELSE [c EXCEPT !.data = @ \o c.line]

\* processLine: an empty line ends an event, any other adds to its data.
ProcessLine(c) ==
    IF c.line = <<>> THEN ProcessEvent(c)
    ELSE [c EXCEPT !.data = @ \o c.line, !.line = <<>>]

\* The loop of sseTokenCounter.Write: a line may have begun in an earlier call.
CounterWrite(c, piece) ==
    IF piece = Newline THEN ProcessLine(c) ELSE [c EXCEPT !.line = Append(@, piece)]

\* sseTokenCounter.Finish: a last line without its newline and a last event
\* without its empty line count; a JSON body that reports no output is
\* counted by its text.
CounterFinish(c) ==
    LET flushed == IF c.line = <<>> THEN c ELSE ProcessLine(c)
        event == IF flushed.data = <<>> THEN flushed ELSE ProcessEvent(flushed)
        usage == Take(event, UsageIn(answer.events, event.json))
    IN  IF usage.out = 0 /\ ~usage.streamed
        THEN [usage EXCEPT !.out = TextIn(answer.events, usage.json)] ELSE usage

-----------------------------------------------------------------------------
(* After *)

Lines(e, split) ==
    IF split THEN <<<<e, 1>>, Newline, <<e, 2>>, Newline, Newline>>
    ELSE <<<<e, 1>>, <<e, 2>>, Newline, Newline>>
Period(a) == Len(Lines(1, a.split))
Stream(a) == [i \in 1 .. Period(a) * Len(a.events) |->
    Lines(1 + ((i - 1) \div Period(a)), a.split)[1 + ((i - 1) % Period(a))]]
Document(a) == IF a.events = <<>> THEN <<>> ELSE <<<<1, 1>>, <<1, 2>>>>

\* captureProviderUsageModifyResponse leaves an event stream alone ...
AnswerStream(a) ==
    /\ stage = "held"
    /\ a.kind = "sse"
    /\ answer' = a
    /\ body' = Stream(a)
    /\ stage' = "answered"
    /\ UNCHANGED <<askVars, sent, counted, counter, capture, billVars>>

\* ... and reads any other body as a whole: all of it, what the 16 MiB limit
\* leaves of it, or nothing when reading fails.
AnswerDocument(a, n) ==
    /\ stage = "held"
    /\ a.kind # "sse"
    /\ answer' = a
    /\ body' = SubSeq(Document(a), 1, n)
    /\ capture' = UsageIn(a.events, body')
    /\ stage' = "answered"
    /\ UNCHANGED <<askVars, sent, counted, counter, billVars>>

Streaming == answer.ok /\ answer.kind = "sse"

\* The reverse proxy writes the next n pieces; the counting writer looks into
\* them if the status is a success and the type one that it knows.
Write(n) ==
    LET seen == IF answer.ok /\ answer.kind = "json"
                THEN SubSeq(body, sent + 1, sent + n) ELSE <<>>
    IN  /\ stage = "answered"
        /\ counted = sent
        /\ sent + n <= Len(body)
        /\ sent' = sent + n
        /\ counted' = IF Streaming THEN counted ELSE sent'
        /\ counter' = [counter EXCEPT !.json = @ \o seen, !.streamed = @ \/ Streaming]
        /\ UNCHANGED <<stage, askVars, answer, body, capture, billVars>>

\* The counter goes through what was written, before the call returns.
Count ==
    /\ stage = "answered"
    /\ counted < sent
    /\ counted' = counted + 1
    /\ counter' = CounterWrite(counter, body[counted'])
    /\ UNCHANGED <<stage, askVars, answer, body, sent, capture, billVars>>

BugChargeErrors(r, p) ==
    IF r.cost > 0 THEN r.cost
    ELSE LET in == Latest(r.in, request.input)
         IN  IF p # NoRate /\ (in > 0 \/ r.out > 0) /\ Estimable(p, in, r.out)
             THEN Estimate(p, in, r.out) ELSE hold

\* logCompletedUsageAsync: what a report is charged, at the price p.
Charge(r, p) ==
    IF ~answer.ok THEN 0
    ELSE IF r.cost > 0 THEN r.cost
    ELSE LET in == Latest(r.in, request.input)
         IN  IF p # NoRate /\ (in > 0 \/ r.out > 0) /\ Estimable(p, in, r.out)
             THEN Estimate(p, in, r.out) ELSE hold

\* The body is at its end, which the provider of a stream may put anywhere:
\* Finish, applyTo and logCompletedUsageAsync, which looks the price up anew.
Finish ==
    LET c == CounterFinish(counter)
        total == Take([out |-> c.out, in |-> c.in, cost |-> c.cost], capture)
    IN  /\ stage = "answered"
        /\ counted = sent
        /\ answer.kind = "sse" \/ sent = Len(body)
        /\ report' = total
        /\ charged' \in PricesNow
        /\ bill' = Charge(total, charged')
        /\ stage' = "billed"
        /\ UNCHANGED <<askVars, answer, body, sent, counted, counter, capture>>

MeteringNext ==
    \/ Refuse \/ Hold \/ HoldClamped \/ RefuseClamped
    \/ \E a \in Answers :
          AnswerStream(a) \/ \E n \in 0 .. Len(Document(a)) : AnswerDocument(a, n)
    \/ \E n \in 1 .. Len(body) : Write(n)
    \/ Count
    \/ Finish

MeteringSpec == MeteringInit /\ [][MeteringNext]_meteringVars

-----------------------------------------------------------------------------
(* Properties *)

Pieces == (Nat \X {1, 2}) \cup {Newline}
Usages == [out : Nat, in : Nat, cost : Nat]

\* The buffers never hold more than the one event that is on its way.
MeteringTypeOK ==
    /\ stage \in {"asked", "refused", "held", "answered", "billed"}
    /\ request \in Requests
    /\ quoted \in Rates \cup {NoRate} /\ charged \in Rates \cup {NoRate}
    /\ hold \in Amount /\ reserved \in Amount /\ IsCaps(forwarded)
    /\ answer \in Answers \cup {NoAnswer}
    /\ body \in Seq(Pieces)
    /\ sent \in 0 .. Len(body) /\ counted \in 0 .. sent
    /\ Len(counter.line \o counter.data) <= 2
    /\ counter.json \in Seq(Pieces)
    /\ [out |-> counter.out, in |-> counter.in, cost |-> counter.cost] \in Usages
    /\ capture \in Usages /\ report \in Usages
    /\ bill \in Nat

\* guard.go:275, "If the prompt fits but that ceiling does not, shrink the
\* forwarded output cap to the room left": the hold never exceeds what is
\* available, one more output token would, and a request is refused only when
\* its input, or the first token of output, is too much, or the price changed
\* between checkBudget's two look-ups.
ClampIsBest ==
    LET Costs(n) == Estimate(request.rate, request.input, n)
    IN  /\ stage \in {"held", "answered", "billed"} =>
              /\ hold = Estimate(quoted, request.input, reserved)
              /\ hold <= request.available
              /\ reserved < MaxOutput => Costs(reserved + 1) > request.available
        /\ stage = "refused" =>
              \/ ~Estimable(request.rate, request.input, MaxOutput)
              \/ request.available <= 0
              \/ Costs(IF MaxOutput = 0 THEN 0 ELSE 1) > request.available
              \/ quoted # request.rate /\ ~StillFits(quoted)

\* A hold is what its tokens cost, in thousandths of a micro-USD, and less
\* than one micro-USD more for each of the two prices it rounds up.
HoldRoundsUp ==
    stage \in {"held", "answered", "billed"} =>
        LET exact == request.input * quoted.in + reserved * quoted.out
        IN  exact <= hold * PerUnit /\ hold * PerUnit < exact + 2 * PerUnit

\* The provider kept to the output caps it was sent: to all of them, or, where
\* TokenGuard has lowered them, to whichever it knows.  One that was sent none,
\* as the default is reserved but not written into the body, need not.
KeptToCaps ==
    IF reserved < MaxOutput THEN \E f \in DOMAIN forwarded : report.out <= forwarded[f]
    ELSE DOMAIN forwarded # {} /\ \A f \in DOMAIN forwarded : report.out <= forwarded[f]

Raised == charged # NoRate /\ (charged.in > quoted.in \/ charged.out > quoted.out)

\* guard.go:277, "A client max_tokens reserve is a ceiling, not the bill": a
\* provider that keeps to the caps it was sent, and reports no more input than
\* was counted and no price of its own, is never charged more than the hold,
\* unless the model was made dearer in the meantime, and then no more than the
\* tokens that were held cost at the price of the settlement.
HoldCoversBill ==
    /\ stage = "billed"
    /\ report.in <= request.input /\ KeptToCaps /\ report.cost = 0
    => bill <= hold \/ (Raised /\ bill <= Estimate(charged, request.input, reserved))

\* What an answer says, read off its events instead of its pieces: those that
\* came whole, and those that came far enough to report.
Event(e) == answer.events[e]
Came(p) == \E n \in 1 .. sent : body[n] = p
Told == {e \in DOMAIN answer.events : Came(<<e, 2>>)}
Reported == Told \cup {e \in DOMAIN answer.events : Came(<<e, 1>>) /\ Event(e).early}
LastOf(field) ==
    LET those == {e \in Reported : Event(e)[field] > 0}
    IN  IF those = {} THEN [at |-> 0, value |-> 0]
        ELSE [at |-> Max(those), value |-> Event(Max(those))[field]]
TextAfter(n) ==
    Total([e \in DOMAIN answer.events |-> IF e \in Told /\ e > n THEN Event(e).text ELSE 0])

\* However a body is cut into writes and lines, and wherever a stream ends,
\* what is charged is the last report of each number in it, and for output
\* the text of the events after that report.
ReportIsOfAnswer ==
    stage = "billed" /\ answer.ok =>
        LET out == LastOf("out")
        IN  /\ report.in = LastOf("in").value
            /\ report.cost = LastOf("cost").value
            /\ report.out = out.value + IF answer.kind = "other" THEN 0 ELSE TextAfter(out.at)

\* HOW_TO_USE.md:449, "then settles the actual cost after the response": an
\* error is charged nothing, a price of the provider's own is charged as it
\* is, and tokens at what their last reports cost at the price there is at the
\* settlement, or the hold when there is none or the cost exceeds an int64.
ChargedAsReported ==
    stage = "billed" =>
        LET in == LastOf("in").value
            out == LastOf("out").value
            cost == LastOf("cost").value
        IN  /\ ~answer.ok => bill = 0
            /\ answer.ok /\ cost > 0 => bill = cost
            /\ answer.ok /\ cost = 0 =>
                  \/ charged # NoRate /\ bill >= Estimate(charged, in, out)
                  \/ bill = hold
=============================================================================
