------------------------ MODULE MCRoutineStripping ------------------------
(***************************************************************************)
(* Assembly in the order the LR35902 and 6502 emitters write it: the pages *)
(* of the start-up code, the banking runtime, functions, trampolines, the  *)
(* indirect call helper, a bank, the empty sections.  Functions take every *)
(* combination of the bodies below.                                        *)
(***************************************************************************)
EXTENDS RoutineStripping, SequencesExt

L(label, kind, refs) == [label |-> label, kind |-> kind, refs |-> refs]
I(kind, refs)        == L("", kind, refs)

MCSourceLabels    == {"_main", "_f", "_g", "_draw"}
MCRootLabels      == {"_main", "__ezra_start", "__ezra_exit"}
MCStaticLabels    == {"__ezra_bank_2_start", "__ezra_bank_2_end"}
MCBankStarts      == {"__ezra_bank_2_start"}
MCBankEnds        == {"__ezra_bank_2_end"}
MCExtraRoots      == {"__ezra_fn_ptr_g"}
MCGeneratedLabels ==
  MCStaticLabels \cup
  {"__ezra_start", "__ezra_exit", "__ezra_loop_0", "__ezra_true_1",
   "__ezra_done_2", "__ezra_return_f", "__ezra_return_g", "__ezra_fn_ptr_f",
   "__ezra_fn_ptr_g", "__ezra_indirect_call", "__ezra_indirect_return",
   "__ezra_select_bank", "__ezra_select_bank_9", "__ezra_bank_ready",
   "__ezra_far_call", "__ezra_gb_far_return"}

Start == <<L("__ezra_start", "call", {"_main"}),
           L("__ezra_exit", "jump", {"__ezra_exit"})>>

\* emit_gameboy_banking_runtime; select_bank runs on into select_bank_9.
BankRuntime ==
  <<L("__ezra_select_bank", "plain", {}),
    L("__ezra_select_bank_9", "branch", {"__ezra_bank_ready"}),
    L("__ezra_bank_ready", "return", {}),
    L("__ezra_far_call", "call", {"__ezra_select_bank_9"}),
    I("plain", {"__ezra_gb_far_return"}),
    I("jump", {}),
    L("__ezra_gb_far_return", "call", {"__ezra_select_bank_9"}),
    I("return", {})>>

IndirectCall ==
  <<L("__ezra_indirect_call", "plain", {"__ezra_indirect_return"}),
    I("jump", {}),
    L("__ezra_indirect_return", "return", {})>>

Trampoline(label, function) == <<L(label, "call", {function}), I("return", {})>>

\* A function in a bank, called through __ezra_far_call, and what it calls.
Bank == <<L("__ezra_bank_2_start", "none", {}),
          L("_draw", "call", {"_g"}),
          I("return", {}),
          L("__ezra_bank_2_end", "none", {})>>

Sections == <<I("section", {}), I("section", {})>>

MainBodies ==
  [direct   |-> <<L("_main", "call", {"_f"}), I("return", {})>>,
   indirect |-> <<L("_main", "plain", {"__ezra_fn_ptr_f"}),
                  I("call", {"__ezra_indirect_call"}), I("return", {})>>,
   loop     |-> <<L("_main", "return_if", {}),
                  L("__ezra_loop_0", "branch", {"__ezra_done_2"}),
                  I("call", {"_g"}), I("jump", {"__ezra_loop_0"}),
                  L("__ezra_done_2", "return", {})>>,
   far      |-> <<L("_main", "plain", {"_draw"}),
                  I("call", {"__ezra_far_call"}), I("return", {})>>]

FBodies ==
  [calls  |-> <<L("_f", "call", {"_g"}), L("__ezra_return_f", "return", {})>>,
   falls  |-> <<L("_f", "plain", {}), L("__ezra_return_f", "none", {})>>,
   either |-> <<L("_f", "branch", {"__ezra_true_1"}), I("jump", {"__ezra_return_f"}),
                L("__ezra_true_1", "plain", {}), L("__ezra_return_f", "return", {})>>,
   jumps  |-> <<L("_f", "return_if", {}), I("jump", {"_g"}),
                L("__ezra_return_f", "none", {})>>]

GBodies ==
  [plain |-> <<L("_g", "plain", {}), L("__ezra_return_g", "return", {})>>,
   naked |-> <<L("_g", "return", {}), L("__ezra_return_g", "none", {})>>,
   calls |-> <<L("_g", "call", {"_f"}), L("__ezra_return_g", "return", {})>>]

GameBoyTexts ==
  {FlattenSeq(<<Start, BankRuntime, MainBodies[main], FBodies[f], GBodies[g],
                Trampoline("__ezra_fn_ptr_f", "_f"), IndirectCall,
                IF main = "far" THEN Bank ELSE <<>>, Sections>>) :
     main \in DOMAIN MainBodies, f \in DOMAIN FBodies, g \in DOMAIN GBodies}

\* The 6502 has no banks; the halves of a pointer are constants at the top.
ConstantTexts ==
  {FlattenSeq(<<<<I("data", {"__ezra_fn_ptr_g"})>>,
                Start, MainBodies[main], FBodies[f], GBodies[g],
                Trampoline("__ezra_fn_ptr_f", "_f"), Trampoline("__ezra_fn_ptr_g", "_g"),
                IndirectCall, Sections>>) :
     main \in DOMAIN MainBodies \ {"far"}, f \in DOMAIN FBodies, g \in DOMAIN GBodies}

MCTexts == GameBoyTexts \cup ConstantTexts

\* A naked function whose assembly ends in a conditional return, and the next.
ConditionalEndTexts ==
  {FlattenSeq(<<Start, BankRuntime, MainBodies.direct,
                <<L("_f", "plain", {}), I("return_if", {}),
                  L("__ezra_return_f", "none", {})>>,
                GBodies[g], Sections>>) : g \in DOMAIN GBodies}

\* The routines of these texts: functions, entry points, runtime, trampolines.
MCRoutineLabels ==
  MCSourceLabels \cup MCRootLabels \cup
  {"__ezra_fn_ptr_f", "__ezra_fn_ptr_g", "__ezra_indirect_call",
   "__ezra_select_bank", "__ezra_select_bank_9", "__ezra_far_call"}

ASSUME WrittenAsEmitted ==
  \A t \in MCTexts : WrittenInRoutines(t, Heads(t, MCRoutineLabels))
=============================================================================
