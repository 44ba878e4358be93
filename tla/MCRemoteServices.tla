-------------------------- MODULE MCRemoteServices --------------------------
(***************************************************************************)
(* Instances of RemoteServices: one tool for each plan, which stands for   *)
(* the others with the same awaits.                                        *)
(***************************************************************************)
EXTENDS RemoteServices

MCFamilies ==
    {{"facebook_create_post", "facebook_delete_post",
      "facebook_reply_comment", "exchange_token", "clear_token"},
     {"facebook_get_community_inbox", "exchange_token", "token_status",
      "clear_token"},
     {"nextcloud_upload_temporary_file", "nextcloud_create_folder",
      "nextcloud_move", "nextcloud_copy", "nextcloud_delete",
      "nextcloud_download_file"},
     {"home_assistant_create_entity", "home_assistant_update_entity",
      "home_assistant_delete_entity", "home_assistant_set_managed_config"},
     {"dolibarr_attach_temporary_file", "telegram_send_message"}}

Symmetric == Permutations(Call) \cup Permutations(Issued)
=============================================================================
