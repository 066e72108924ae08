------------------------ MODULE MCTelegramDispatcher ------------------------
(***************************************************************************)
(* Bounds for TelegramDispatcher.  Questions, simulations and plans share  *)
(* the handlers' machinery and no state: a behaviour uses one of them.     *)
(* ajustar is plano but for an answer that shows nothing: it has a mix of  *)
(* its own.                                                                *)
(***************************************************************************)
EXTENDS TelegramDispatcher, TLC

Symmetry == Permutations(Messages) \cup Permutations(Questions) \cup Permutations(Proposals)

MCMixes ==
    {{"questao", "responder"}, {"simulado", "cancelar"},
     {"plano", "desistir"} \cup Replying, {"ajustar", "confirmo"}}
=============================================================================
