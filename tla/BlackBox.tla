------------------------------ MODULE BlackBox ------------------------------
(***************************************************************************)
(* The registry of black boxes (src/cdc/blackbox.cpp) and the test of a    *)
(* node against it (src/cdc/crossing.cpp): the built-in models come first, *)
(* then those of the configuration, and the first with the name counts.    *)
(* A node belongs to a module [type, path], a type that may be "" and a    *)
(* path of instance names, which stand for the names between the dots.     *)
(***************************************************************************)
EXTENDS Config

(* The models of the registry, every one of which is a safe crossing. *)
BuiltIn ==
  {"xpm_cdc_array_single", "xpm_cdc_gray", "xpm_cdc_handshake", "xpm_cdc_async_rst",
   "xpm_fifo_async", "alt_cdc_single", "alt_cdc_bus", "dcfifo",
   "dcfifo_mixed_widths", "ARM_CDC_SYNC"}

IsSafeModel(config, name) ==
  LET Named(b) == b.module_name = name
      found == SelectSeq(config.blackboxes, Named) IN
  \/ name \in BuiltIn
  \/ found # <<>> /\ Head(found).is_safe_crossing

(* The type decides if it is known; else the path, or its last name. *)
InSafeBox(config, module) ==
  IF module.type # "" THEN IsSafeModel(config, module.type)
  ELSE module.path # <<>> /\ IsSafeModel(config, Last(module.path))
=============================================================================
