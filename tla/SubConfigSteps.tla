--------------------------- MODULE SubConfigSteps ---------------------------
(***************************************************************************)
(* What the sub configuration mixins do to two hosts, each with one NIC:   *)
(* for every mixin the steps of its apply_sub_configuration or hw_config   *)
(* and those of its remove_sub_configuration or hw_deconfig, without the   *)
(* call of super().  Host 1 and its NIC share their number, as do host 2   *)
(* and its own; hosts and NICs are visited in that order.                  *)
(*                                                                         *)
(* A step has a kind (do), the attribute and the host it is about, and a   *)
(* value.  The kinds:                                                      *)
(*   set      an attribute assigned through an RPC, which may raise        *)
(*   run      host.run(): a command that fails does so in silence          *)
(*   must     host.run() with its result tested: a failure raises          *)
(*   demand   raises unless the attribute has the value                    *)
(*   check    may raise, and changes nothing                               *)
(*   lack     raises: the parameter it reads was not given                 *)
(*   open     a dictionary of the configuration: "new", or "kept" when it  *)
(*            is there already                                             *)
(*   note     the current value is recorded: an "attribute" read through   *)
(*            an RPC, which may raise; "found" in the output of a command, *)
(*            or else raises; "read" from an output that may be empty;      *)
(*            "parsed", which may be either; or "local", the controller's  *)
(*            own list, where nothing fails                                *)
(*   need     raises unless the dictionary is there                        *)
(*   restore  _deconfigure_dev_attribute for one device                    *)
(*   rerun    a command for a host of which a value was recorded, with     *)
(*            that or the given value                                      *)
(*   rerun_on_last   the same, run on the host the last loop ended with    *)
(*   close    the dictionary is deleted                                    *)
(***************************************************************************)
EXTENDS SequencesExt

Hosts == <<1, 2>>
Step(do, attr, at, val) == [do |-> do, attr |-> attr, at |-> at, val |-> val]
EachHost(Steps(_)) == FlattenSeq([i \in DOMAIN Hosts |-> Steps(Hosts[i])])

-----------------------------------------------------------------------------
(* Mixins that remember nothing: they give a fixed value back, or none.    *)

IdleStates == EachHost(LAMBDA h : <<Step("run", "idle", h, "off")>>)
IdleStatesBack == EachHost(LAMBDA h : <<Step("run", "idle", h, "on")>>)

Turboboost == EachHost(LAMBDA h : <<Step("run", "turbo", h, "off")>>)
TurboboostBack == EachHost(LAMBDA h : <<Step("run", "turbo", h, "on")>>)

IntelSSTTF ==
    EachHost(LAMBDA h : <<Step("demand", "turbo", h, "on"), Step("must", "idle", h, "on"),
                          Step("must", "sst", h, "off"), Step("must", "sst", h, "on")>>)
(* The command that would disable the feature does not work before the     *)
(* next reboot, as the code warns, and its failure is only a warning.      *)
IntelSSTTFBack == <<>>

(* Mutant of Offloads: every round takes the first combination.            *)
FirstOffloads(combination) == EachHost(LAMBDA h : <<Step("run", "offload", h, "off")>>)
Offloads(combination) == EachHost(LAMBDA h : <<Step("run", "offload", h, combination)>>)
OffloadsBack == EachHost(LAMBDA h : <<Step("run", "offload", h, "on")>>)

-----------------------------------------------------------------------------
(* The hardware mixins, which share the dictionary hw_config.              *)

HwConfig == <<Step("open", "hw", 0, "new")>>
HwDeconfig == <<Step("close", "hw", 0, "")>>

(* The entry of the device is there, and empty, before the original value  *)
(* is read; what was configured is read back at the end.                   *)
NoteAndSet(attr, h, val) == <<Step("note", attr, h, "attribute"), Step("set", attr, h, val)>>
configure_dev(attr, h, val) == NoteAndSet(attr, h, val) \o <<Step("check", attr, h, "")>>
configure_dev_attribute(attr, val) ==
    <<Step("open", attr, 0, "kept")>> \o EachHost(LAMBDA h : configure_dev(attr, h, val))
deconfigure_dev_attribute(attr) ==
    <<Step("need", "hw", 0, "")>> \o EachHost(LAMBDA h : <<Step("restore", attr, h, "")>>)

Mtu == configure_dev_attribute("mtu", "new")
MtuBack == deconfigure_dev_attribute("mtu")

PauseFrames ==
    configure_dev_attribute("pause_rx", "new") \o configure_dev_attribute("pause_tx", "new")
PauseFramesBack == deconfigure_dev_attribute("pause_rx") \o deconfigure_dev_attribute("pause_tx")

(* Mutant: the settings in the order the parameter happens to have.        *)
TimesFirst ==
    EachHost(LAMBDA h : <<Step("open", "usecs", 0, "kept")>> \o configure_dev("usecs", h, "new")
                        \o <<Step("open", "adaptive", 0, "kept")>> \o configure_dev("adaptive", h, "off"))
(* The parameter turns the adaptive mode off and sets one time; the mode   *)
(* is set first and restored last.                                         *)
Coalescing ==
    EachHost(LAMBDA h : <<Step("open", "adaptive", 0, "kept")>> \o configure_dev("adaptive", h, "off")
                        \o <<Step("open", "usecs", 0, "kept")>> \o configure_dev("usecs", h, "new"))
CoalescingBack ==
    <<Step("need", "hw", 0, "")>>
    \o EachHost(LAMBDA h : <<Step("restore", "usecs", h, ""), Step("restore", "adaptive", h, "")>>)

pin_dev_interrupts(h, val) == <<Step("check", "affinity", h, ""), Step("run", "affinity", h, val)>>
(* Mutant of StopIrqbalance: the host is not recorded.                     *)
StopUnrecorded(h) == <<Step("run", "irqbalance", h, "off")>>
StopIrqbalance(h) == <<Step("run", "irqbalance", h, "off"), Step("note", "irqbalance", h, "local")>>
DevInterrupt ==
    <<Step("open", "irqbalance", 0, "new")>>
    \o EachHost(StopIrqbalance) \o EachHost(LAMBDA h : pin_dev_interrupts(h, "pinned"))
(* The per device variant, asked for the NIC of host 1 only.               *)
MultiDevInterrupt ==
    <<Step("open", "irqbalance", 0, "new")>> \o StopIrqbalance(1) \o pin_dev_interrupts(1, "own")
(* It reads its parameter without a look whether it was given.             *)
MultiNotGiven == <<Step("lack", "irqbalance", 0, "")>>
StartIrqbalance ==
    <<Step("need", "hw", 0, "")>> \o EachHost(LAMBDA h : <<Step("rerun", "irqbalance", h, "on")>>)

ParallelStreamQDisc ==
    <<Step("open", "qdisc", 0, "new")>>
    \o EachHost(LAMBDA h : <<Step("run", "qdisc", h, "mq"), Step("note", "qdisc", h, "local")>>)
(* Mutant: the list of devices is taken to be there.                       *)
QDiscTakenForGranted == <<Step("need", "qdisc", 0, "")>>
ParallelStreamQDiscBack ==
    <<Step("need", "hw", 0, "")>> \o EachHost(LAMBDA h : <<Step("rerun", "qdisc", h, "default")>>)

NoteAndRun(attr, how, h) == <<Step("note", attr, h, how), Step("run", attr, h, "new")>>
DevQueues ==
    <<Step("open", "queues", 0, "new")>> \o EachHost(LAMBDA h : NoteAndRun("queues", "parsed", h))
DevQueuesBack ==
    <<Step("need", "hw", 0, "")>> \o EachHost(LAMBDA h : <<Step("rerun", "queues", h, "recorded")>>)

DevRxHashFunction ==
    <<Step("open", "rxhash", 0, "new")>> \o EachHost(LAMBDA h : NoteAndRun("rxhash", "found", h))
DevRxHashFunctionBack ==
    <<Step("need", "hw", 0, "")>> \o EachHost(LAMBDA h : <<Step("rerun", "rxhash", h, "recorded")>>)

(* One protocol with an asymmetric hash, which needs the transformations   *)
(* (xfrm) disabled.  The dictionary of a device is there before its hash   *)
(* is parsed: "visited".                                                   *)
disable_xfrm_transformations(h) ==
    <<Step("note", "xfrm", h, "read"), Step("rerun", "xfrm", h, "none")>>
DevNfcRxFlowHash ==
    <<Step("open", "flowhash", 0, "new"), Step("open", "xfrm", 0, "new")>>
    \o EachHost(LAMBDA h : <<Step("note", "visited", h, "local"), Step("note", "flowhash", h, "parsed")>>
                           \o disable_xfrm_transformations(h)
                           \o <<Step("run", "flowhash", h, "new")>>)
(* The transformations of every device are restored with a command that    *)
(* runs on the host of `dev`, the variable of the loop before.             *)
DevNfcRxFlowHashBack ==
    <<Step("need", "hw", 0, "")>>
    \o EachHost(LAMBDA h : <<Step("rerun", "flowhash", h, "recorded")>>)
    \o EachHost(LAMBDA h : <<Step("rerun_on_last", "xfrm", h, "recorded")>>)

-----------------------------------------------------------------------------
(* Rulesets: the dictionary of the stored ones is assigned after the loop. *)

Firewall(hosts) ==
    FlattenSeq([i \in DOMAIN hosts |-> NoteAndSet("ruleset", hosts[i], "new")])
    \o <<Step("open", "ruleset", 0, "kept")>>
FirewallBack(hosts) ==
    <<Step("need", "ruleset", 0, "")>>
    \o [i \in DOMAIN hosts |-> Step("restore", "ruleset", hosts[i], "")]

(* The timeout of half open connections, a parameter of the module that is *)
(* unloaded at the end: after the call of super(), unlike everywhere else. *)
Conntrack == <<Step("run", "timeout", 2, "new")>>
ConntrackBack == <<Step("run", "timeout", 2, "default")>>

=============================================================================
