---------------------------- MODULE MCCorePipeline ----------------------------
(* CorePipeline for TLC, with the instructions that matter to interrupts   *)
(* and exceptions, to single-stepping with interrupts, to triggers and a   *)
(* debugger behind loads, and to a write of a trigger register behind one  *)
(* that is too slow.                                                       *)
EXTENDS CorePipeline

MCIrq ==
  { Plain("op"), Plain("mem"), Goto("branch", 3), Goto("jump", 0),
    Plain("illegal"), Plain("mret"), Plain("wfi"),
    SetBits("mstatus", {"mie"}), SetBits("mie", {}), SetBits("mie", {"irq"}),
    SetAddr("mepc", 3) }

MCStep ==
  { Plain("op"), Plain("not_taken"), Goto("branch", 1), Goto("jump", 0), Plain("ebreak"),
    Plain("ecall"), Plain("mret"), Plain("dret"), Plain("wfi"), Plain("fencei"),
    SetBits("dcsr", {"step"}),
    SetBits("dcsr", {"step", "stepie"}), SetBits("dcsr", {"ebreakm"}),
    SetBits("mstatus", {"mie"}), SetBits("mie", {"irq"}) }

MCTrigger ==
  { Plain("mem"), Goto("branch", 1), Goto("jump", 0), Plain("ebreak"), Plain("dret"),
    Plain("wfi"), SetBits("dcsr", {"step", "ebreakm"}), SetAddr("dpc", 2),
    SetBits("tdata1", {"execute"}) }

MCSlowLoad == { Plain("op"), Plain("mem"), SetBits("tdata1", {"execute"}) }

MCNever  == {FALSE}
MCAlways == {TRUE}
==============================================================================
