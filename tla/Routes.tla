------------------------------- MODULE Routes -------------------------------
(***************************************************************************)
(* What a request meets on its way through the daemon, one table for each  *)
(* layer, keyed by operation: the REST handler (internal/transport/http),  *)
(* the MCP tool (internal/transport/mcp), the method of the service        *)
(* (internal/service) and the call of the adapter (internal/waclient).     *)
(* Only what decides an answer or an effect is kept; module Requests runs  *)
(* requests through the tables.                                            *)
(***************************************************************************)
EXTENDS Sequences

----------------------------------------------------------------------------
(* REST.  A handler parses a body or query parameters of its own, or not,  *)
(* and turns the errors it names into 4xx; every other error is a 500.     *)

Handler(parses, names) == [parses |-> parses, names |-> names]

SendTextHandler           == Handler(TRUE,  {"invalid", "not_connected"})
EditMessageHandler        == Handler(TRUE,  {"invalid", "forbidden", "not_found", "not_connected"})
DeleteMessageHandler      == Handler(FALSE, {"invalid", "forbidden", "not_found", "not_connected"})
SearchMessagesHandler     == Handler(TRUE,  {"invalid"})
SendMediaHandler          == Handler(TRUE,  {"invalid", "not_connected"})
GetMediaHandler           == Handler(FALSE, {"invalid", "not_found"})
SendReactionHandlerBlind  == Handler(TRUE,  {"invalid", "not_connected"})
SendReactionHandler       == Handler(TRUE,  {"invalid", "not_found", "not_connected"})
ListReactionsHandler      == Handler(FALSE, {"invalid"})
MarkReadHandler           == Handler(FALSE, {"invalid", "not_found", "not_connected"})
ListReceiptsHandler       == Handler(FALSE, {"invalid"})
SendTypingHandler         == Handler(TRUE,  {"invalid", "not_connected"})
ListChatsHandler          == Handler(TRUE,  {"invalid"})
GetChatHandler            == Handler(FALSE, {"not_found"})
ListMessagesByChatHandler == Handler(TRUE,  {"invalid"})
ListContactsHandler       == Handler(FALSE, {})
SearchContactsHandler     == Handler(TRUE,  {"invalid"})
StatsHandler              == Handler(FALSE, {})
CreateGroupHandler        == Handler(TRUE,  {"invalid", "not_connected"})
ListGroupMembersHandler   == Handler(FALSE, {"invalid", "not_connected"})
UpdateGroupMembersHandler == Handler(TRUE,  {"invalid", "not_connected"})
LeaveGroupHandler         == Handler(FALSE, {"invalid", "not_connected"})

NewRouter ==
  [sendText |-> SendTextHandler, edit |-> EditMessageHandler,
   delete |-> DeleteMessageHandler, searchMessages |-> SearchMessagesHandler,
   sendMedia |-> SendMediaHandler, getMedia |-> GetMediaHandler,
   react |-> SendReactionHandler, reactions |-> ListReactionsHandler,
   read |-> MarkReadHandler, receipts |-> ListReceiptsHandler,
   typing |-> SendTypingHandler, chats |-> ListChatsHandler,
   chat |-> GetChatHandler, messages |-> ListMessagesByChatHandler,
   contacts |-> ListContactsHandler, searchContacts |-> SearchContactsHandler,
   stats |-> StatsHandler, createGroup |-> CreateGroupHandler,
   members |-> ListGroupMembersHandler, updateMembers |-> UpdateGroupMembersHandler,
   leaveGroup |-> LeaveGroupHandler]

Operations == DOMAIN NewRouter

----------------------------------------------------------------------------
(* MCP.  A tool parses a field itself, or not; hands an optional field that*)
(* was left out to the service as a zero value, where the REST handler has *)
(* a default (a limit of 50, a MIME type from the file); and is announced  *)
(* as read-only, or not.  All tools answer errors through mapErr.          *)

Tool(parses, omits, readOnly) ==
  [parses |-> parses, omits |-> omits, readOnly |-> readOnly]

mapErrBlind == {"invalid", "not_found"}
mapErr == {"invalid", "forbidden", "not_found"}

wa_send_text            == Tool(FALSE, FALSE, FALSE)
wa_send_media           == Tool(TRUE,  TRUE,  FALSE)
wa_edit_message         == Tool(FALSE, FALSE, FALSE)
wa_delete_message       == Tool(FALSE, FALSE, FALSE)
wa_react                == Tool(FALSE, FALSE, FALSE)
wa_mark_read            == Tool(FALSE, FALSE, FALSE)
wa_typing               == Tool(FALSE, FALSE, FALSE)
wa_list_messages        == Tool(TRUE,  TRUE,  TRUE)
wa_search_messages      == Tool(FALSE, TRUE,  TRUE)
wa_list_reactions       == Tool(FALSE, FALSE, TRUE)
wa_list_receipts        == Tool(FALSE, FALSE, TRUE)
wa_get_media            == Tool(FALSE, FALSE, TRUE)
wa_list_chats           == Tool(TRUE,  TRUE,  TRUE)
wa_get_chat             == Tool(FALSE, FALSE, TRUE)
wa_list_contacts        == Tool(FALSE, FALSE, TRUE)
wa_search_contacts      == Tool(FALSE, TRUE,  TRUE)
wa_stats                == Tool(FALSE, FALSE, TRUE)
wa_create_group         == Tool(FALSE, FALSE, FALSE)
wa_list_group_members   == Tool(FALSE, FALSE, TRUE)
wa_update_group_members == Tool(FALSE, FALSE, FALSE)
wa_leave_group          == Tool(FALSE, FALSE, FALSE)

newServer ==
  [sendText |-> wa_send_text, edit |-> wa_edit_message,
   delete |-> wa_delete_message, searchMessages |-> wa_search_messages,
   sendMedia |-> wa_send_media, getMedia |-> wa_get_media,
   react |-> wa_react, reactions |-> wa_list_reactions,
   read |-> wa_mark_read, receipts |-> wa_list_receipts,
   typing |-> wa_typing, chats |-> wa_list_chats,
   chat |-> wa_get_chat, messages |-> wa_list_messages,
   contacts |-> wa_list_contacts, searchContacts |-> wa_search_contacts,
   stats |-> wa_stats, createGroup |-> wa_create_group,
   members |-> wa_list_group_members, updateMembers |-> wa_update_group_members,
   leaveGroup |-> wa_leave_group]

----------------------------------------------------------------------------
(* The service.  A method validates its arguments, or takes none; it then  *)
(* needs nothing, a stored message, a stored message of ours that is not   *)
(* deleted, or a row it is asked for; and it leaves the store alone, or    *)
(* writes what WhatsApp has accepted.                                      *)

Method(validates, needs, writes) ==
  [validates |-> validates, needs |-> needs, writes |-> writes]

SendText           == Method(TRUE,  "nothing", TRUE)
SendMedia          == Method(TRUE,  "nothing", TRUE)
EditMessage        == Method(TRUE,  "own",     TRUE)
DeleteMessage      == Method(TRUE,  "own",     TRUE)
SendReaction       == Method(TRUE,  "message", TRUE)
MarkMessageRead    == Method(TRUE,  "message", TRUE)
SendTyping         == Method(TRUE,  "nothing", FALSE)
CreateGroup        == Method(TRUE,  "nothing", TRUE)
ListGroupMembers   == Method(TRUE,  "nothing", FALSE)
UpdateGroupMembers == Method(TRUE,  "nothing", FALSE)
LeaveGroup         == Method(TRUE,  "nothing", FALSE)
ListChats          == Method(TRUE,  "nothing", FALSE)
GetChat            == Method(TRUE,  "row",     FALSE)
ListMessages       == Method(TRUE,  "nothing", FALSE)
SearchMessages     == Method(TRUE,  "nothing", FALSE)
ListContacts       == Method(FALSE, "nothing", FALSE)
SearchContacts     == Method(TRUE,  "nothing", FALSE)
Stats              == Method(FALSE, "nothing", FALSE)
GetMediaRef        == Method(TRUE,  "row",     FALSE)
ListReactions      == Method(TRUE,  "nothing", FALSE)
ListReceipts       == Method(TRUE,  "nothing", FALSE)

Service ==
  [sendText |-> SendText, edit |-> EditMessage,
   delete |-> DeleteMessage, searchMessages |-> SearchMessages,
   sendMedia |-> SendMedia, getMedia |-> GetMediaRef,
   react |-> SendReaction, reactions |-> ListReactions,
   read |-> MarkMessageRead, receipts |-> ListReceipts,
   typing |-> SendTyping, chats |-> ListChats,
   chat |-> GetChat, messages |-> ListMessages,
   contacts |-> ListContacts, searchContacts |-> SearchContacts,
   stats |-> Stats, createGroup |-> CreateGroup,
   members |-> ListGroupMembers, updateMembers |-> UpdateGroupMembers,
   leaveGroup |-> LeaveGroup]

----------------------------------------------------------------------------
(* The adapter.  Every call is refused without a connection, then parses   *)
(* the identifiers it was given - those that come straight from the        *)
(* request may turn out malformed here - and then asks WhatsApp, in one or *)
(* two exchanges of which the last one takes effect.                       *)

Call(parses, asks) == [parses |-> parses, asks |-> asks]

AdapterSendText           == Call({"request"}, <<"SendMessage">>)
AdapterSendMedia          == Call({"request"}, <<"Upload", "SendMessage">>)
AdapterSendEdit           == Call({"row"},     <<"SendMessage">>)
AdapterSendRevoke         == Call({"row"},     <<"SendMessage">>)
AdapterSendReaction       == Call({"row"},     <<"SendMessage">>)
AdapterMarkRead           == Call({"row"},     <<"MarkRead">>)
AdapterSendChatPresence   == Call({"request"}, <<"SendChatPresence">>)
AdapterCreateGroup        == Call({"request"}, <<"CreateGroup">>)
AdapterGetGroupInfo       == Call({"request"}, <<"GetGroupInfo">>)
AdapterUpdateParticipants == Call({"request"}, <<"UpdateGroupParticipants">>)
AdapterLeaveGroup         == Call({"request"}, <<"LeaveGroup">>)

Adapter ==
  [sendText |-> AdapterSendText, sendMedia |-> AdapterSendMedia,
   edit |-> AdapterSendEdit, delete |-> AdapterSendRevoke,
   react |-> AdapterSendReaction, read |-> AdapterMarkRead,
   typing |-> AdapterSendChatPresence, createGroup |-> AdapterCreateGroup,
   members |-> AdapterGetGroupInfo, updateMembers |-> AdapterUpdateParticipants,
   leaveGroup |-> AdapterLeaveGroup]

\* The exchanges that ask without changing anything.
Asking == {"GetGroupInfo"}

\* What only the adapter, or the full-text index, finds malformed.
ParsedBelow(op) ==
  \/ op = "searchMessages"
  \/ op \in DOMAIN Adapter /\ "request" \in Adapter[op].parses

Calls(op)  == op \in DOMAIN Adapter
Asks(op)   == Adapter[op].asks
Changes(op) == Calls(op) /\ Asks(op)[Len(Asks(op))] \notin Asking
=============================================================================
