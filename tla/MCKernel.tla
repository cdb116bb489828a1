------------------------------ MODULE MCKernel ------------------------------
(***************************************************************************)
(* Applications to check module Kernel on.  The instances are finite as    *)
(* they stand: no state constraint bounds them.                            *)
(***************************************************************************)
EXTENDS Kernel

(* A device with four priorities.  gpio and timer share priority 2, uart   *)
(* has the highest one.  log and cfg nest in idle and gpio, tx has ceiling *)
(* 4 and is claimed with interrupts disabled, led is owned by priority 2.  *)
MCHandlers == {"adc", "gpio", "timer", "uart"}
MCResources == {"cfg", "log", "tx", "led"}
MCPriority == [adc |-> 1, gpio |-> 2, timer |-> 2, uart |-> 4]
MCUses == [init |-> {"log"}, idle |-> {"cfg", "log"},
           adc |-> {"cfg", "log", "tx"}, gpio |-> {"log", "led"},
           timer |-> {"led"}, uart |-> {"tx"}]
MCCeiling == [cfg |-> 1, log |-> 2, tx |-> 4, led |-> 2]

(* A handler declared with `priority = 0`, which the parser accepts.  The  *)
(* analysis puts it at the level of idle, so neither of the two locks.     *)
ZeroHandlers == {"adc", "gpio", "uart"}
ZeroResources == {"log", "tx"}
ZeroPriority == [adc |-> 0, gpio |-> 1, uart |-> 2]
ZeroUses == [init |-> {}, idle |-> {"log"}, adc |-> {"log"},
             gpio |-> {"tx"}, uart |-> {"tx"}]
ZeroCeiling == [log |-> 0, tx |-> 2]
=============================================================================
