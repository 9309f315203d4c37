------------------------ MODULE MCExtensionLifecycle ------------------------
(* Two seeds, so that the control plane can move away and back again. *)
EXTENDS ExtensionLifecycle

CONSTANTS a, b

Seeds == {a, b}
=============================================================================
