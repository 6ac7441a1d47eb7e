-------------------------- MODULE MCProcessShutdown -------------------------
(* Three Vulkan workers with unequal allowances, and an ordinary worker    *)
(* between them.                                                           *)
EXTENDS ProcessShutdown

MCVulkan == {1, 2, 4}
MCAllowance == <<4, 4, 2, 1>>
=============================================================================
