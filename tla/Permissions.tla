----------------------------- MODULE Permissions -----------------------------
(***************************************************************************)
(* What a tool needs and when it is allowed: the table TOOL_PERMISSIONS    *)
(* and SENSITIVE of app/mcp_server.py, require_permission of               *)
(* app/security.py.  The table is the one in force: the legacy names on    *)
(* its left (read, send, ...) are already replaced by their scopes.        *)
(***************************************************************************)
EXTENDS TLC

LegacyPermission == {"read", "send", "move", "copy", "flags", "delete",
                     "folders", "attachments", "admin"}

PERMISSIONS == LegacyPermission \cup
    {"accounts.read", "accounts.write", "mail.read", "mail.send", "mail.move",
     "mail.copy", "mail.flags", "mail.delete", "mail.folders",
     "mail.attachments", "facebook.read", "facebook.write",
     "facebook.moderate", "dolibarr.read", "dolibarr.write",
     "dolibarr.delete", "nextcloud.read", "nextcloud.write",
     "nextcloud.delete", "telegram.read", "telegram.write",
     "homeassistant.read", "homeassistant.control", "homeassistant.admin",
     "homeassistant.delete"}

\* what require_permission calls mutating: MUTATING_PERMISSIONS and the set
\* written in the function
Mutating ==
    PERMISSIONS \ {"attachments", "read", "admin", "accounts.read",
                   "mail.read", "mail.attachments", "facebook.read",
                   "dolibarr.read", "nextcloud.read", "telegram.read",
                   "homeassistant.read"}

Destructive == {"delete", "mail.delete", "dolibarr.delete",
                "nextcloud.delete", "homeassistant.delete"}

Setting == [read_only : BOOLEAN, allow_copy_in_read_only : BOOLEAN,
            destructive_operations_enabled : BOOLEAN]

\* require_permission returns (anything else raises)
Permitted(permission, granted, settings) ==
    /\ permission \in PERMISSIONS
    /\ permission \in granted \/ "admin" \in granted
    /\ settings.read_only /\ permission \in Mutating
       => permission = "copy" /\ settings.allow_copy_in_read_only
    /\ permission \in Destructive => settings.destructive_operations_enabled

-----------------------------------------------------------------------------
\* TOOL_PERMISSIONS, grouped by the permission
MailTools ==
    "accounts.read" :> {"list_accounts", "get_account", "test_account"} @@
    "accounts.write" :> {"set_default_account"} @@
    "mail.read" :>
        {"list_mailboxes", "get_mailbox", "resolve_mailbox", "list_emails",
         "search_emails", "get_email", "get_emails", "get_email_headers",
         "get_raw_message", "get_thread", "get_conversation"} @@
    "mail.folders" :>
        {"create_mailbox", "rename_mailbox", "delete_mailbox",
         "subscribe_mailbox", "unsubscribe_mailbox"} @@
    "mail.flags" :>
        {"mark_read", "mark_unread", "add_flags", "remove_flags", "set_flags",
         "star_email", "unstar_email"} @@
    "mail.move" :>
        {"move_email", "move_emails", "archive_email", "archive_emails",
         "trash_email", "trash_emails", "restore_email", "restore_emails"} @@
    "mail.copy" :> {"copy_email", "copy_emails"} @@
    "mail.delete" :>
        {"delete_email_permanently", "delete_emails_permanently",
         "delete_draft"} @@
    "mail.send" :>
        {"create_draft", "update_draft", "send_draft", "send_email",
         "reply_email", "reply_all", "forward_email"} @@
    "mail.attachments" :>
        {"list_attachments", "download_attachment", "save_attachment",
         "mail_list_attachments", "mail_get_attachment",
         "mail_parse_ubl_temporary_file", "document_get_info",
         "document_read_pdf", "document_read_pdf_all",
         "document_render_pdf_page"}

RemoteTools ==
    "facebook.read" :>
        {"facebook_list_pages", "facebook_get_page", "facebook_list_posts",
         "facebook_get_post", "facebook_get_comments",
         "facebook_get_insights", "facebook_get_notifications",
         "facebook_health_check", "facebook_token_status",
         "facebook_get_capabilities", "facebook_get_recent_posts",
         "facebook_get_recent_comments", "facebook_get_community_inbox"} @@
    "facebook.write" :>
        {"facebook_create_post", "facebook_create_photo_post",
         "facebook_delete_post", "facebook_reply_comment",
         "upload_temporary_image", "upload_temporary_image_from_url"} @@
    "facebook.moderate" :> {"facebook_hide_comment"} @@
    "dolibarr.read" :>
        {"dolibarr_health_check", "dolibarr_list_resources", "dolibarr_list",
         "dolibarr_get"} @@
    "dolibarr.write" :>
        {"dolibarr_create", "dolibarr_update", "dolibarr_action",
         "dolibarr_attach_temporary_file"} @@
    "dolibarr.delete" :> {"dolibarr_delete"} @@
    "nextcloud.read" :>
        {"nextcloud_health_check", "nextcloud_list_folder",
         "nextcloud_get_file_info", "nextcloud_download_file",
         "nextcloud_list_trash", "nextcloud_list_shares",
         "nextcloud_get_account_info"} @@
    "nextcloud.write" :>
        {"nextcloud_upload_file", "nextcloud_upload_temporary_file",
         "nextcloud_create_folder", "nextcloud_move", "nextcloud_copy",
         "nextcloud_restore_trash_item", "nextcloud_create_share",
         "nextcloud_update_share", "nextcloud_update_account_field",
         "nextcloud_webdav_request", "nextcloud_ocs_request"} @@
    "nextcloud.delete" :>
        {"nextcloud_delete", "nextcloud_delete_trash_item",
         "nextcloud_delete_share"} @@
    "telegram.read" :>
        {"telegram_health_check", "telegram_get_updates",
         "telegram_get_callback_result"} @@
    "telegram.write" :>
        {"telegram_send_message", "telegram_send_report",
         "telegram_send_buttons", "telegram_request_invoice_validation",
         "telegram_set_commands"} @@
    "homeassistant.read" :>
        {"home_assistant_health_check", "home_assistant_get_config",
         "home_assistant_list_entities", "home_assistant_get_entity",
         "home_assistant_get_entity_registry_entry",
         "home_assistant_list_services", "home_assistant_get_history",
         "home_assistant_get_logbook", "home_assistant_api_get",
         "home_assistant_websocket_query",
         "home_assistant_get_managed_config"} @@
    "homeassistant.control" :>
        {"home_assistant_call_service", "home_assistant_fire_event",
         "home_assistant_render_template"} @@
    "homeassistant.admin" :>
        {"home_assistant_create_entity", "home_assistant_update_entity",
         "home_assistant_update_entity_registry_entry",
         "home_assistant_check_config", "home_assistant_validate_automation",
         "home_assistant_set_managed_config",
         "home_assistant_reload_managed_config",
         "home_assistant_websocket_command"} @@
    "homeassistant.delete" :>
        {"home_assistant_delete_entity",
         "home_assistant_delete_entity_registry_entry",
         "home_assistant_delete_managed_config"}

ToolsOf == MailTools @@ RemoteTools

Tool == UNION {ToolsOf[p] : p \in DOMAIN ToolsOf}

ToolPermission ==
    [t \in Tool |-> CHOOSE p \in DOMAIN ToolsOf : t \in ToolsOf[p]]

\* the tools execute writes an AuditLog row for (those of Home Assistant are in
\* the set, but run under a wrapper of their own)
SENSITIVE ==
    {"send_email", "reply_email", "reply_all", "forward_email", "move_email",
     "move_emails", "trash_email", "trash_emails", "delete_email_permanently",
     "delete_emails_permanently", "delete_mailbox", "set_default_account",
     "home_assistant_call_service", "home_assistant_fire_event",
     "home_assistant_set_managed_config",
     "home_assistant_delete_managed_config",
     "home_assistant_websocket_command", "home_assistant_create_entity",
     "home_assistant_update_entity",
     "home_assistant_update_entity_registry_entry",
     "home_assistant_delete_entity",
     "home_assistant_delete_entity_registry_entry"}
=============================================================================
