---------------------------- MODULE MCHandlerStartup ----------------------------
(* The four plugins that take part, one start each; -30000 is scaled to    *)
(* -5, and two retries are enough for the three plugins that compete.      *)
EXTENDS HandlerStartup

CONSTANTS antenna, meatgrinder, quip, userlist,
          handlerReady, registerHandler, block, quipc, list, normal,
          l1, l2, l3, l4

AllNames == {antenna, meatgrinder, quip, userlist}
AllTypes == {handlerReady, registerHandler}
AllData == {block, quipc, list, normal}
AllLoads == {l1, l2, l3, l4}
AllPreloads == <<antenna, meatgrinder, quip, userlist>>
Lowest == -7
Low == -5
===============================================================================
