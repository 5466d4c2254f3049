---------------------------- MODULE MCConfigurator ----------------------------
(* A small catalogue for ConfiguratorForm: two variants, a revision, and a     *)
(* shell with an option, which two rules price for the white variant until   *)
(* the first day ends.  Version 2 sells the shell with a cleaning only,       *)
(* version 3 archives the shell, requires the option and excludes the         *)
(* cleaning: what reads services in version 2 and rules in version 3 sells   *)
(* the shell with the option alone, which neither does.                      *)
EXTENDS ConfiguratorForm

Rule(variant, model, amount, until) ==
    [service |-> "shell", client |-> "STANDARD", family |-> None, model |-> model,
     variant |-> variant, from |-> None, until |-> until, amount |-> amount]

First ==
    [day |-> 1,
     models |-> [edge |-> "ACTIVE"],
     variants |-> [white |-> [model |-> "edge", status |-> "ACTIVE"],
                   black |-> [model |-> "edge", status |-> "ACTIVE"]],
     revisions |-> [v1 |-> "white"],
     services |-> [clean |-> [status |-> "ARCHIVED", base |-> 15],
                   shell |-> [status |-> "ACTIVE", base |-> 30]],
     options |-> [matte |-> [service |-> "shell", status |-> "ACTIVE",
                             required |-> FALSE, extra |-> 5]],
     compatibility |-> {[service |-> "shell", model |-> None, variant |-> "white", revision |-> None]},
     exclusions |-> {},
     requirements |-> {},
     recommendations |-> {[service |-> "clean", other |-> "shell"]},
     prices |-> {Rule(None, "edge", 20, 1), Rule("white", "edge", 22, None),
                Rule("white", "edge", 27, 1)},
     overrides |-> {},
     leadTimes |-> {[service |-> "shell", model |-> None, min |-> 7, max |-> 12]},
     taxRate |-> None]

Second == [First EXCEPT !.day = 2, !.services.clean.status = "ACTIVE",
                        !.requirements = {[service |-> "shell", needs |-> "clean"]}]

Third == [First EXCEPT !.day = 2, !.taxRate = 1000, !.services.shell.status = "ARCHIVED",
                       !.options.matte.required = TRUE, !.services.clean.status = "ACTIVE",
                       !.exclusions = {[a |-> "clean", b |-> "shell"]}]

Versions == <<First, Second, Third>>

(* The cart holds a shell with a cleaning. *)
CONSTANTS c1, c2
OneLine == [c \in {c2} |->
    [model |-> "edge", variant |-> "white", revision |-> None,
     services |-> <<"clean", "shell">>, options |-> <<>>]]
=============================================================================
