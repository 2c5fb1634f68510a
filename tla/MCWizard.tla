------------------------------ MODULE MCWizard ------------------------------
(* The wizard with one step of every kind. *)
EXTENDS Wizard

MCSteps == <<"satel", "panel", "mqtt", "webhook", "modes", "escalation", "summary">>
=============================================================================
