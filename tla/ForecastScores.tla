--------------------------- MODULE ForecastScores ---------------------------
(***************************************************************************)
(* What the forecasts were worth (engine/validation.py and                 *)
(* app/forecast_comparison/service.py): pure functions from what was       *)
(* forecast and what came to scores.  A mean is a fraction [of, over]; a   *)
(* score with nothing to divide by is Unscored, never zero.  Amounts are   *)
(* integers, a probability is a percentage.                                *)
(***************************************************************************)
EXTENDS Integers, FiniteSets, Sequences, SequencesExt, Functions

CONSTANTS Unscored,   \* Python's None
          Unsaid      \* a value the model or the source does not carry

RainOccurrence == 1   \* mm

SumOf(f) == FoldLeft(LAMBDA a, b : a + b, 0, f)
Size(x) == IF x < 0 THEN -x ELSE x
Fraction(of, over) == IF over = 0 THEN Unscored ELSE [of |-> of, over |-> over]
Mean(f) == Fraction(SumOf(f), Len(f))
Mapped(f, F(_)) == [i \in DOMAIN f |-> F(f[i])]
Groups(f, Key(_)) == {Key(f[i]) : i \in DOMAIN f}
Group(f, Key(_), k) == LET its(x) == Key(x) = k IN SelectSeq(f, its)

-----------------------------------------------------------------------------
\* precision_recall: outcomes are [event, predicted, observed].
PrecisionRecall(outcomes) ==
    LET n(p, o) == Len(SelectSeq(outcomes, LAMBDA x : x.predicted = p /\ x.observed = o))
        tp == n(TRUE, TRUE)   fp == n(TRUE, FALSE)   fn == n(FALSE, TRUE) IN
    [tp |-> tp, fp |-> fp, fn |-> fn, tn |-> n(FALSE, FALSE),
     precision |-> Fraction(tp, tp + fp), recall |-> Fraction(tp, tp + fn)]

\* precision_recall_by_event_type
ByEvent(outcomes) ==
    LET event(x) == x.event IN
    [e \in Groups(outcomes, event) |-> PrecisionRecall(Group(outcomes, event, e))]

\* mean_absolute_eta_error_minutes: samples are [predicted, actual].
EtaError(samples) == Mean(Mapped(samples, LAMBDA s : Size(s.actual - s.predicted)))

\* mean_data_latency_seconds_by_provider: samples are [provider, observed, used].
Latency(samples) ==
    LET provider(s) == s.provider IN
    [p \in Groups(samples, provider) |->
        Mean(Mapped(Group(samples, provider, p), LAMBDA s : s.used - s.observed))]

\* provider_availability: attempts are [provider, succeeded].
Availability(attempts) ==
    LET provider(a) == a.provider IN
    [p \in Groups(attempts, provider) |->
        Mean(Mapped(Group(attempts, provider, p), LAMBDA a : IF a.succeeded THEN 1 ELSE 0))]

-----------------------------------------------------------------------------
\* A sample is [model, temp, rain, wind : <<predicted, observed>>, chance].
\* Every score skips the samples that lack what it needs.
Paired(pairs) == SelectSeq(pairs, LAMBDA p : p[1] # Unsaid /\ p[2] # Unsaid)

Errors(pairs) == Mapped(pairs, LAMBDA p : p[1] - p[2])

TemperatureError(samples) ==
    Mean(Mapped(Errors(Paired(Mapped(samples, LAMBDA s : s.temp))), Size))

WindError(samples) == Mean(Mapped(Errors(Paired(Mapped(samples, LAMBDA s : s.wind))), Size))

PrecipitationError(samples) ==
    LET errors == Errors(Paired(Mapped(samples, LAMBDA s : s.rain))) IN
    IF errors = <<>> THEN Unscored
    ELSE [bias |-> Mean(errors), mae |-> Mean(Mapped(errors, Size)), count |-> Len(errors)]

Rained(mm) == mm >= RainOccurrence

HitRate(samples) ==
    Mean(Mapped(Paired(Mapped(samples, LAMBDA s : s.rain)),
                LAMBDA p : IF Rained(p[1]) = Rained(p[2]) THEN 1 ELSE 0))

\* brier_score, in ten-thousandths.
Brier(samples) ==
    Mean(Mapped(Paired(Mapped(samples, LAMBDA s : <<s.chance, s.rain[2]>>)),
                LAMBDA p : LET d == p[1] - (IF Rained(p[2]) THEN 100 ELSE 0) IN d * d))

\* get_model_comparison: the scores of every model that has an observed snapshot here.
Comparison(samples, enough) ==
    LET model(s) == s.model IN
    [m \in Groups(samples, model) |->
        LET its == Group(samples, model, m) IN
        [count |-> Len(its), enough |-> Len(its) >= enough,
         temp |-> TemperatureError(its), rain |-> PrecipitationError(its),
         wind |-> WindError(its), hits |-> HitRate(its), brier |-> Brier(its)]]

-----------------------------------------------------------------------------
Below(a, b) == a.of * b.over <= b.of * a.over

\* The outcomes of the event types are those of all, no more and no fewer, and a score
\* of all lies among theirs: none of them can be better, or worse, than each type.
GroupsAddUp(outcomes) ==
    LET all == PrecisionRecall(outcomes)
        by == ByEvent(outcomes)
        scored(f) == {e \in DOMAIN by : by[e][f] # Unscored} IN
    /\ \A f \in {"tp", "fp", "fn", "tn"} :
         all[f] = FoldFunction(+, 0, [e \in DOMAIN by |-> by[e][f]])
    /\ \A f \in {"precision", "recall"} :
         /\ all[f] = Unscored <=> scored(f) = {}
         /\ all[f] # Unscored => /\ \E e \in scored(f) : Below(by[e][f], all[f])
                                 /\ \E e \in scored(f) : Below(all[f], by[e][f])

\* A provider is as available as a forecast that always says it answers is precise; no
\* mean latency is larger than the mean error of the same times.
MeansAgree(outcomes) ==
    LET attempts == Mapped(outcomes, LAMBDA o : [provider |-> o.event, succeeded |-> o.observed])
        said == Mapped(outcomes, LAMBDA o : [o EXCEPT !.predicted = TRUE])
        late(o) == (IF o.predicted THEN 5 ELSE 0) - (IF o.observed THEN 7 ELSE 0)
        used == Mapped(outcomes,
                       LAMBDA o : [provider |-> o.event, observed |-> 0, used |-> late(o)])
        arrivals == Mapped(outcomes, LAMBDA o : [predicted |-> 0, actual |-> late(o)])
        latency == Latency(used) IN
    /\ Availability(attempts) = [e \in DOMAIN ByEvent(said) |-> ByEvent(said)[e].precision]
    /\ \A p \in DOMAIN latency : Size(latency[p].of) <= EtaError(arrivals).of

\* The order of the samples is nothing to the scores; no bias is larger than the mean
\* error, a rate is at most one, and a forecast that only ever says 0 or 100 per cent,
\* and says rain when it does, misses as often as its Brier score.
ScoresAgree(samples) ==
    LET rain == PrecipitationError(samples)
        hits == HitRate(samples)
        brier == Brier(samples)
        sure == \A i \in DOMAIN samples :
                   /\ samples[i].chance \in {0, 100}
                   /\ samples[i].rain[1] # Unsaid
                   /\ Rained(samples[i].rain[1]) = (samples[i].chance = 100) IN
    /\ rain # Unscored => Size(rain.bias.of) <= rain.mae.of /\ rain.bias.over = rain.mae.over
    /\ hits = Unscored <=> rain = Unscored
    /\ hits # Unscored => hits.of <= hits.over
    /\ brier # Unscored => brier.of <= 10000 * brier.over
    /\ sure /\ hits # Unscored => brier = [of |-> 10000 * (hits.over - hits.of), over |-> hits.over]
    /\ Comparison(samples, 2) = Comparison(Reverse(samples), 2)
=============================================================================
