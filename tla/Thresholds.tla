----------------------------- MODULE Thresholds -----------------------------
(***************************************************************************)
(* The threshold rules of PreprocessThresholdProcessor                     *)
(* (internal/processors/preprocess_threshold_processor.go) as operators.   *)
(* A telemetry item is a metric, its tags and a number; a rule is about one*)
(* metric, narrowed by tags, with a limit for each severity.               *)
(***************************************************************************)
EXTENDS Integers, Sequences

CONSTANTS
  Rules,   \* the rules of thresholds.yml, in their order
  NoLimit  \* a severity a rule does not have

compare(value, target, op) ==
  CASE op = ">"  -> value > target
    [] op = ">=" -> value >= target
    [] op = "<"  -> value < target
    [] op = "<=" -> value <= target
    [] op = "==" -> value = target
    [] op = "!=" -> value # target
    [] OTHER     -> FALSE

(* A rule tag "*" asks for the tag, any other for its value; an empty value is
   that of a tag the item does not have. *)
tagsMatch(tags, ruleTags) ==
  \A k \in DOMAIN ruleTags :
    IF k \in DOMAIN tags THEN ruleTags[k] \in {"*", tags[k]} ELSE ruleTags[k] = ""

evalRule(value, r) ==
  LET exceeds(limit) == limit # NoLimit /\ compare(value, limit, r.operator)
  IN  IF exceeds(r.critical) THEN "critical"
      ELSE IF exceeds(r.warning) THEN "warning"
      ELSE "ok"

Matching(t) == {i \in DOMAIN Rules : /\ Rules[i].metric = t.metric
                                     /\ tagsMatch(t.tags, Rules[i].tags)}

(* The tag threshold.status of an item.  An item no rule is about is normal
   too, as soon as there is a rule at all. *)
applyThresholds(t) ==
  LET found == {evalRule(t.value, Rules[i]) : i \in Matching(t)}
  IN  IF Rules = <<>> THEN ""
      ELSE IF "critical" \in found THEN "critical"
      ELSE IF "warning" \in found THEN "warning"
      ELSE "normal"

Configured(metric) == \E i \in DOMAIN Rules : Rules[i].metric = metric
=============================================================================
