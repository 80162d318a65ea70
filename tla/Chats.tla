-------------------------------- MODULE Chats --------------------------------
(***************************************************************************)
(* The conversations of AdminChat and the screens of HubScreens share       *)
(* nothing, so a behaviour is of the one or of the other.                   *)
(***************************************************************************)
EXTENDS AdminChat, HubScreens

VARIABLE part

ChatsVars == <<vars, screensVars, part>>

ChatsInit ==
  /\ part \in {"conversation", "screens"}
  /\ Init /\ (part = "screens" => chat = "HUB")
  /\ ScreensInit /\ (part = "conversation" => who = Owner)

ChatsNext ==
  /\ \/ part = "conversation" /\ Next /\ UNCHANGED screensVars
     \/ part = "screens" /\ ScreensNext /\ UNCHANGED vars
  /\ UNCHANGED part

ChatsSpec == ChatsInit /\ [][ChatsNext]_ChatsVars

\* Every variable of the conversations and of the screens has its type.
ChatsTypeOK == TypeOK /\ ScreensTypeOK
=============================================================================
