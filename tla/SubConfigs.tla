------------------------------ MODULE SubConfigs ------------------------------
(***************************************************************************)
(* The loop over sub configurations of BaseEnrtRecipe.test: for each of    *)
(* them the mixins of the recipe's class apply their part, each after the  *)
(* mixins behind it in the method resolution order, the tests run, and the *)
(* mixins remove their part in the opposite order, also when something     *)
(* raised.  A removal that raises keeps the mixins behind it from theirs,  *)
(* and the loop ends.                                                      *)
(*                                                                         *)
(* The hosts and NICs are external: the value every setting has there.     *)
(***************************************************************************)
EXTENDS SubConfigSteps, FiniteSets, Integers

CONSTANTS Recipes,      \* the recipe classes to run
          MaxAsked,     \* how many parameters are given, unless all are
          MaxFaults     \* how many steps fail although nothing forbids them

ASSUME SubConfigsAssumption ==
    /\ Recipes \subseteq {"SimpleNetwork", "XDPDrop", "Tunable", "CTInsertionRate", "RuleScale"}
    /\ MaxAsked \in Nat /\ MaxFaults \in Nat

VARIABLES
    recipe, asked,      \* the class that runs, the parameters it was given
    before,             \* the setting of every attribute before the recipe
    left,               \* the offload combinations of the remaining rounds
    phase, todo,        \* what runs and the steps it has left
    real,               \* the setting of every attribute of every host
    opened, notes,      \* the configuration: its dictionaries, the originals
    faults,             \* how many steps may still fail
    failed, blocked,    \* the step that raised, the step the removal ended at
    silent              \* a command failed in silence

fixed == <<recipe, asked, before>>
config == <<opened, notes>>
vars == <<fixed, left, phase, todo, real, config, faults, failed, blocked, silent>>

-----------------------------------------------------------------------------
(* The mixins in the order they apply, last the first of the class list.   *)

Common == <<"mtu", "coalescing", "intr", "qdisc", "pause">>
Bare == <<"idle", "turbo", "sst", "offload", "hw">>
SimpleNetworkMixins == Bare \o Common
XDPDropMixins == Bare \o Common \o <<"multi">>
TunableMixins ==
    Bare \o <<"mtu", "multi", "coalescing", "pause", "queues", "flowhash", "rxhash">>
CTInsertionRateMixins == Bare \o Common \o <<"ruleset", "conntrack">>
RuleScaleMixins == <<"ruleset">> \o Bare \o Common
Mixins ==
    CASE recipe = "SimpleNetwork" -> SimpleNetworkMixins
      [] recipe = "XDPDrop" -> XDPDropMixins
      [] recipe = "Tunable" -> TunableMixins
      [] recipe = "CTInsertionRate" -> CTInsertionRateMixins
      [] OTHER -> RuleScaleMixins
(* Mixins without a parameter: always at work.                             *)
Always == {"hw", "ruleset", "conntrack"}
RulesetHosts == <<2>>

ApplySteps(combination) ==
    [idle |-> IdleStates, turbo |-> Turboboost, sst |-> IntelSSTTF,
     offload |-> Offloads(combination), hw |-> HwConfig, mtu |-> Mtu, coalescing |-> Coalescing,
     intr |-> DevInterrupt, multi |-> MultiDevInterrupt, qdisc |-> ParallelStreamQDisc,
     pause |-> PauseFrames, queues |-> DevQueues, flowhash |-> DevNfcRxFlowHash,
     rxhash |-> DevRxHashFunction, ruleset |-> Firewall(RulesetHosts), conntrack |-> Conntrack]
(* The hardware mixins look for what they recorded, the others ask their   *)
(* parameter again.                                                        *)
RemoveSteps ==
    [idle |-> IdleStatesBack, turbo |-> TurboboostBack, sst |-> IntelSSTTFBack,
     offload |-> OffloadsBack, hw |-> HwDeconfig, mtu |-> MtuBack,
     coalescing |-> CoalescingBack, intr |-> StartIrqbalance, multi |-> StartIrqbalance,
     qdisc |-> ParallelStreamQDiscBack, pause |-> PauseFramesBack, queues |-> DevQueuesBack,
     flowhash |-> DevNfcRxFlowHashBack, rxhash |-> DevRxHashFunctionBack,
     ruleset |-> FirewallBack(RulesetHosts), conntrack |-> <<>>]
AtWork(m) == m \in asked \cup Always
Remembers(m) == m \notin {"idle", "turbo", "sst", "offload", "coalescing"}

apply_sub_configuration(combination) ==
    FlattenSeq([i \in DOMAIN Mixins |->
                  IF AtWork(Mixins[i]) THEN ApplySteps(combination)[Mixins[i]]
                  ELSE IF Mixins[i] = "multi" THEN MultiNotGiven ELSE <<>>])
remove_sub_configuration ==
    LET back == Reverse(Mixins)
    IN  FlattenSeq([i \in DOMAIN back |->
                      IF AtWork(back[i]) \/ Remembers(back[i]) THEN RemoveSteps[back[i]] ELSE <<>>])
        \o (IF recipe = "CTInsertionRate" THEN ConntrackBack ELSE <<>>)

Attributes ==
    {"idle", "turbo", "sst", "offload", "mtu", "adaptive", "usecs", "irqbalance", "affinity", "qdisc",
     "pause_rx", "pause_tx", "queues", "flowhash", "xfrm", "rxhash", "ruleset", "timeout", "visited"}
Cells == Attributes \X {1, 2}
(* The switches of a host may be on or off before the recipe; of all other *)
(* settings it matters only whether they are what they were.               *)
Switches == {"idle", "turbo", "sst", "offload", "irqbalance"}
Before(off) ==
    [c \in Cells |-> CASE c[1] \in off -> "off"
                       [] c[1] \in Switches \cup {"adaptive", "xfrm"} -> "on"
                       [] OTHER -> "default"]
Parameters == ToSet(Mixins) \ Always
NoStep == Step("none", "", 0, "")
TheTests == Step("tests", "", 0, "")

Init ==
    /\ recipe \in Recipes
    /\ asked \in {p \in SUBSET Parameters : \/ Cardinality(p \ {"multi"}) <= MaxAsked
                                           \/ p = Parameters \ {"sst"}}
    /\ \E off \in SUBSET Switches : before = Before(off)
    /\ left = IF "offload" \in asked THEN <<"on">> ELSE <<>>
    /\ phase = "apply" /\ todo = apply_sub_configuration("off")
    /\ real = before /\ opened = {} /\ notes = <<>>
    /\ faults = MaxFaults /\ failed = NoStep /\ blocked = NoStep /\ silent = FALSE

-----------------------------------------------------------------------------
(* One step of a mixin.                                                    *)

Now == Head(todo)
Cell == <<Now.attr, Now.at>>
At(do) == phase \in {"apply", "remove"} /\ todo # <<>> /\ Now.do = do
Advance == todo' = Tail(todo) /\ UNCHANGED <<phase, failed, blocked>>
Put(val) == real' = [real EXCEPT ![Cell] = val]
Noted == Cell \in DOMAIN notes
Usable == Noted /\ notes[Cell] # "unread"
Recorded == IF Now.val = "recorded" THEN notes[Cell] ELSE Now.val
Without(cell) == [c \in DOMAIN notes \ {cell} |-> notes[c]]

(* An exception: _sub_context goes on to the removal, and one from the     *)
(* removal ends the recipe.                                                *)
_sub_context(step) ==
    /\ IF phase = "remove"
       THEN phase' = "over" /\ todo' = <<>>
       ELSE phase' = "remove" /\ todo' = remove_sub_configuration
    /\ failed' = step
Raise == _sub_context(Now) /\ UNCHANGED <<real, config, silent, blocked>>
Fail == faults > 0 /\ faults' = faults - 1
(* The code's own error while it removes.                                  *)
Blocked ==
    /\ phase' = "over" /\ todo' = <<>> /\ blocked' = Now
    /\ UNCHANGED <<real, config, silent, failed>>

open_section ==
    /\ At("open") /\ Advance
    /\ opened' = opened \cup {Now.attr}
    /\ notes' = IF Now.val = "new"
                THEN [c \in {d \in DOMAIN notes : d[1] # Now.attr} |-> notes[c]] ELSE notes
    /\ UNCHANGED <<real, silent, faults>>
note ==
    /\ At("note")
    /\ \/ Advance /\ notes' = (Cell :> real[Cell]) @@ notes /\ UNCHANGED <<opened, real, silent, faults>>
       \/ Now.val \in {"attribute", "parsed", "found"} /\ Fail /\ Raise
       \/ /\ Now.val \in {"parsed", "read"} /\ Fail /\ silent' = TRUE
          /\ Advance /\ notes' = (Cell :> "unread") @@ notes /\ UNCHANGED <<opened, real>>
set_attribute ==
    /\ At("set")
    /\ \/ Advance /\ Put(Now.val) /\ UNCHANGED <<config, silent, faults>>
       \/ Fail /\ Raise
run ==
    /\ At("run") /\ Advance
    /\ \/ Put(Now.val) /\ UNCHANGED <<silent, faults>>
       \/ Fail /\ silent' = TRUE /\ UNCHANGED real
    /\ UNCHANGED config
must ==
    /\ At("must")
    /\ \/ Advance /\ Put(Now.val) /\ UNCHANGED <<config, silent, faults>>
       \/ Fail /\ Raise
demand ==
    /\ At("demand") /\ UNCHANGED faults
    /\ IF real[Cell] = Now.val THEN Advance /\ UNCHANGED <<real, config, silent>> ELSE Raise
lack == At("lack") /\ Raise /\ UNCHANGED faults
check ==
    /\ At("check")
    /\ \/ Advance /\ UNCHANGED <<real, config, silent, faults>>
       \/ Fail /\ Raise

need ==
    /\ At("need") /\ UNCHANGED faults
    /\ IF Now.attr \in opened THEN Advance /\ UNCHANGED <<real, config, silent>> ELSE Blocked
restore ==
    /\ At("restore")
    /\ \/ /\ Now.attr \notin opened /\ Advance
          /\ UNCHANGED <<real, config, silent, faults>>
       \/ Now.attr \in opened /\ ~Noted /\ Blocked /\ UNCHANGED faults
       \/ /\ Now.attr \in opened /\ Noted
          /\ \/ /\ Advance /\ Put(notes[Cell]) /\ notes' = Without(Cell)
                /\ UNCHANGED <<opened, silent, faults>>
             \/ Fail /\ Raise
rerun ==
    /\ At("rerun") /\ Advance
    /\ \/ Usable /\ Put(Recorded) /\ UNCHANGED <<silent, faults>>
       \/ Usable /\ Fail /\ silent' = TRUE /\ UNCHANGED real
       \/ ~Usable /\ UNCHANGED <<real, silent, faults>>
    /\ UNCHANGED config
(* On the host of the last device visited the command finds the NIC of the *)
(* name it was given, or none: it never reaches the other host.            *)
LastVisited == IF <<"visited", 2>> \in DOMAIN notes THEN 2 ELSE 1
rerun_on_last ==
    /\ At("rerun_on_last") /\ Advance
    /\ IF Usable /\ Now.at = LastVisited THEN Put(Recorded) ELSE UNCHANGED real
    /\ UNCHANGED <<config, silent, faults>>
(* del config.hw_config                                                    *)
close_section ==
    /\ At("close")
    /\ \/ /\ Now.attr \in opened /\ Advance
          /\ opened' = opened \cap {"ruleset"}
          /\ notes' = [c \in {d \in DOMAIN notes : d[1] = "ruleset"} |-> notes[c]]
          /\ UNCHANGED <<real, silent, faults>>
       \/ Now.attr \notin opened /\ Blocked /\ UNCHANGED faults

-----------------------------------------------------------------------------
(* The loop of test() and the context manager around its body.             *)

Applied ==
    /\ phase = "apply" /\ todo = <<>>
    /\ phase' = "tests"
    /\ UNCHANGED <<fixed, left, todo, real, config, faults, failed, blocked, silent>>
do_tests ==
    /\ phase = "tests"
    /\ phase' = "remove" /\ todo' = remove_sub_configuration
    /\ \/ failed' = failed /\ UNCHANGED faults
       \/ failed' = TheTests /\ Fail
    /\ UNCHANGED <<fixed, left, real, config, blocked, silent>>
NextRound ==
    /\ phase = "remove" /\ todo = <<>> /\ failed = NoStep /\ left # <<>>
    /\ phase' = "apply" /\ todo' = apply_sub_configuration(Head(left)) /\ left' = Tail(left)
    /\ opened' = {} /\ notes' = <<>>
    /\ UNCHANGED <<fixed, real, faults, failed, blocked, silent>>
Over ==
    /\ phase = "remove" /\ todo = <<>> /\ (failed # NoStep \/ left = <<>>)
    /\ phase' = "over"
    /\ UNCHANGED <<fixed, left, todo, real, config, faults, failed, blocked, silent>>

Mixin ==
    /\ \/ open_section \/ note \/ set_attribute \/ run \/ must \/ demand \/ lack \/ check
       \/ need \/ restore \/ rerun \/ rerun_on_last \/ close_section
    /\ UNCHANGED <<fixed, left>>
Next == Mixin \/ Applied \/ do_tests \/ NextRound \/ Over

Spec == Init /\ [][Next]_vars

-----------------------------------------------------------------------------
(* Properties.                                                             *)

TypeOK ==
    /\ phase \in {"apply", "tests", "remove", "over"}
    /\ DOMAIN before = Cells /\ DOMAIN real = Cells /\ DOMAIN notes \subseteq Cells
    /\ faults \in 0..MaxFaults /\ silent \in BOOLEAN
    /\ opened \subseteq Attributes \cup {"hw"}

(* What the parameters of a test ask of both hosts.                        *)
Requested(p) ==
    CASE p = "idle" -> {<<"idle", "off">>}
      [] p = "turbo" -> {<<"turbo", "off">>}
      [] p = "sst" -> {<<"sst", "on">>}
      [] p = "offload" -> {<<"offload", IF left = <<>> THEN "on" ELSE "off">>}
      [] p = "coalescing" -> {<<"adaptive", "off">>, <<"usecs", "new">>}
      [] p = "intr" -> {<<"irqbalance", "off">>, <<"affinity", "pinned">>}
      [] p = "qdisc" -> {<<"qdisc", "mq">>}
      [] p = "pause" -> {<<"pause_rx", "new">>, <<"pause_tx", "new">>}
      [] p = "flowhash" -> {<<"flowhash", "new">>, <<"xfrm", "none">>}
      [] p = "multi" -> {}
      [] OTHER -> {<<p, "new">>}
(* The two cases in which a mixin undoes what another was asked for: SST-TF*)
(* enables all idle states, and a NIC has one interrupt configuration.     *)
Overruled(attr, h) ==
    \/ attr = "idle" /\ "sst" \in asked
    \/ attr = "affinity" /\ h = 1 /\ "multi" \in asked

(* When the tests run and no command failed, every parameter the recipe    *)
(* was given is in effect on both hosts, in every round, but for the two   *)
(* cases above.                                                            *)
SettingsInEffect ==
    /\ TypeOK
    /\ phase = "tests" /\ ~silent =>
          \A p \in asked, h \in {1, 2} : \A r \in Requested(p) :
             real[<<r[1], h>>] = r[2] \/ Overruled(r[1], h)

(* What a removal that ran to its end does not give back: the affinity of  *)
(* interrupts (left to irqbalance), the transformations of a NIC whose     *)
(* host is not the last one's, and irqbalance on a host that only one of   *)
(* the two interrupt mixins stopped.                                       *)
GivenUp(cell) ==
    \/ cell[1] = "affinity"
    \/ cell = <<"xfrm", 1>> /\ "flowhash" \in asked
    \/ cell = <<"irqbalance", 2>> /\ {"intr", "multi"} \subseteq asked
(* The switches that are on after the removal, whatever they were: what    *)
(* the mixin that was asked for takes for the default, and SST-TF, which   *)
(* stays enabled with the idle states it enabled.                          *)
ForcedOn(attr) ==
    \/ attr \in {"idle", "turbo", "sst", "offload"} /\ attr \in asked
    \/ attr = "idle" /\ "sst" \in asked

(* After a removal that ran to its end, whatever raised before it, every   *)
(* setting has the value it had before the recipe, except for those the    *)
(* mixins force: these switches are on, also where they were off before.   *)
(* irqbalance runs, or was never touched; and the three cases above.       *)
RemovalRestores ==
    phase = "remove" /\ todo = <<>> /\ ~silent =>
        \A c \in Cells :
           \/ GivenUp(c)
           \/ real[c] = IF ForcedOn(c[1]) THEN "on" ELSE before[c]
           \/ c[1] = "irqbalance" /\ asked \cap {"intr", "multi"} # {} /\ real[c] = "on"

(* Where an exception leaves the configuration in a state that its removal *)
(* cannot handle: before hw_config exists (SST-TF); before all devices of  *)
(* an attribute have an entry with its original value, that is when this   *)
(* is read, or anywhere at the first device; for the adaptive mode, also   *)
(* at the second, whose time comes later and is restored first; and        *)
(* anywhere before rulesets that are removed first are stored.             *)
Unremovable(step) ==
    LET raised == step.do \in {"note", "set", "check", "must", "demand"}
    IN  \/ raised /\ recipe = "CTInsertionRate"
        \/ raised /\ step.attr \in {"sst", "idle", "turbo", "adaptive", "ruleset"}
        \/ raised /\ step.attr \in {"mtu", "usecs", "pause_rx", "pause_tx"}
             /\ (step.do = "note" \/ step.at = 1)

(* The removal stops at an error of its own exactly after such exceptions. *)
(* All other mixins then keep their settings on the hosts.                 *)
RemovalBlockedOnlyBy ==
    phase = "over" => (blocked # NoStep <=> Unremovable(failed))

(* The time of interrupt coalescing changes only while the adaptive mode   *)
(* is off, when it is configured and when it is restored.                  *)
AdaptiveOffFirst ==
    [][\A h \in {1, 2} : real'[<<"usecs", h>>] # real[<<"usecs", h>>] =>
          real[<<"adaptive", h>>] = "off"]_vars

(* DevNfcRxFlowHashConfigMixin.py:71-72: "this sets the xfrm bitmap to 0   *)
(* and sets the individual bits to 1 based on original state".  After a    *)
(* run in which nothing failed the transformations of every NIC are what   *)
(* they were.                                                              *)
XfrmRestored ==
    phase = "over" /\ failed = NoStep /\ ~silent =>
        \A h \in {1, 2} : real[<<"xfrm", h>>] = before[<<"xfrm", h>>]

=============================================================================
