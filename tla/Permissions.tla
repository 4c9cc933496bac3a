---------------------------- MODULE Permissions ----------------------------
(***************************************************************************)
(* What an agent may do, compiled from its tool attachments (ADR-027): the *)
(* compiler of packages/policy, the conversion of hand written permission  *)
(* lists into attachments, and the comparison that tells when a removal    *)
(* would widen access.                                                     *)
(*                                                                         *)
(* Two native tools stand for the catalog: "run" (tests.run) implies       *)
(* "write" (workspace.write), the shortest chain in which a denial of one  *)
(* tool decides what an attachment of another grants.                      *)
(***************************************************************************)
EXTENDS FiniteSets

Tools == {"run", "write"}

\* NATIVE_TOOL_DEPENDENCIES.
Implied(t) == IF t = "run" THEN {"write"} ELSE {}

Levels == {"none", "allow", "deny"}
Modes == {"none", "allow", "disabled"}
NoAttachments == [t \in Tools |-> "none"]

\* The live entries an attachment list grants, and what these grants imply.
Granted(attach, live) == {t \in live : attach[t] = "allow"}
Implications(attach, live) == UNION {Implied(t) : t \in Granted(attach, live)}

\* compileAttachments: an explicit denial wins over an implication, and a deleted entry is
\* denied outright where something would imply it.
Compile(attach, live) ==
    [t \in Tools |->
        CASE t \in Granted(attach, live) -> "allow"
          [] t \in live /\ attach[t] = "disabled" -> "deny"
          [] OTHER -> IF t \notin Implications(attach, live) THEN "none"
                      ELSE IF t \in live THEN "allow" ELSE "deny"]

\* compiled.impliedBy: another attached tool grants t, whether t is attached itself or not.
HeldByImplication(attach, live, t) ==
    t \in Implications(attach, live) \cap live /\ attach[t] # "disabled"

\* describeWidenedTools: what the second list grants and the first does not.
WidenedTools(before, after) == {t \in Tools : after[t] = "allow" /\ before[t] # "allow"}

\* legacyAttachmentsFromPermissions: only a live entry resolves.
Conversion(perms, live) ==
    [t \in Tools |-> IF t \notin live THEN "none"
                     ELSE IF perms[t] = "allow" THEN "allow"
                     ELSE IF perms[t] = "deny" THEN "disabled" ELSE "none"]

\* A grant no live entry covers: attachTool refuses to drop it.
UnresolvedGrants(perms, live) == {t \in Tools \ live : perms[t] = "allow"}

\* nativeToolGrants: what a runtime lets the agent do under these lists.
Abilities(perms) ==
    LET runs == perms["run"] = "allow" /\ perms["write"] # "deny"
    IN  {t \in Tools : IF t = "run" THEN runs ELSE runs \/ perms["write"] = "allow"}
=============================================================================
