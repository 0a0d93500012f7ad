------------------------------- MODULE Facade -------------------------------
(***************************************************************************)
(* The functions of cppgit2 as programs of Calls, by file and in its       *)
(* order.  A function that only passes its arguments on to an overload has *)
(* the overload's program; overloads that differ are told apart by a word  *)
(* in brackets.  Constructors, destructors and moves are in Ownership,     *)
(* which visitor sees what in Visitors and Index.  Not here: the functions *)
(* that give libgit2 a null or uninitialised buffer, or a pointer of the   *)
(* wrong kind, whatever it answers (README, section 6).                    *)
(***************************************************************************)
EXTENDS Sequences

(* auto ret = git_...(); a value or ""; no failure to report *)
Getter     == <<>>
(* throw_nonzero(git_...()) *)
Checked    == <<"call", "check">>
(* throw_nonbool(git_...()) *)
Answered   == <<"call", "bool">>
(* bool f() { return git_...(); }, or an enum: a code below 0 becomes a value *)
Converted  == <<"call", "asbool">>
(* if (!git_...()) throw git_exception() *)
NullThrows == <<"call", "null">>
(* the same, or a test of its own, with a message of its own *)
OwnMessage == <<"call", "own">>
(* git_...(); *)
Dropped    == <<"drop">>
(* a git_buf or a raw pointer filled, checked, and given to an owner *)
Filled     == <<"fill", "check", "free">>
(* the same, given to nobody *)
Kept       == <<"fill", "check">>
(* an array of its own around a checked call *)
Array      == <<"malloc", "call", "check", "free">>
(* a pointer of its own to a result nobody owns *)
Listed     == <<"malloc", "fill", "check">>
(* throw_nonzero(git_..._foreach(callback)) *)
Visiting   == <<"visit", "check">>
(* an iterator, a loop that any code but 0 ends as its end does, and a visitor
   in the loop; the iterator is freed after it *)
Loop       == <<"fill", "visit", "free">>
(* options initialised, or a name looked up, then used *)
Prepared(program) == Checked \o program

(* The functions of these names have this program. *)
All(names, program) == {<<n, program>> : n \in names}

-----------------------------------------------------------------------------
(* repository.cpp *)

Opened ==
  All({"init", "init_ext", "open", "open_bare", "open_ext", "open_from_worktree", "clone",
       "config", "config_snapshot", "detach_head"}, Checked)
  \cup All({"path", "is_bare", "is_worktree"}, Getter)
  \cup All({"is_empty"}, Answered) \cup All({"is_shallow"}, Converted)
  \cup All({"commondir"}, NullThrows)
  \cup All({"discover_path"}, Filled)

Heads ==
  All({"for_each_fetch_head", "for_each_merge_head"}, Visiting)
  \cup All({"namespace_"}, OwnMessage)
  \cup All({"hashfile", "head", "head_for_worktree"}, Checked)
  \cup All({"is_head_detached", "is_head_detached_for_worktree", "is_head_unborn"}, Answered)

State ==
  All({"identity", "index", "odb", "refdb", "set_head", "set_head_detached", "set_identity",
       "unset_identity", "set_namespace", "set_workdir", "cleanup_state", "wrap_odb"}, Checked)
  \cup All({"path(item)", "message"}, Filled) \cup All({"remove_message"}, Dropped)
  \cup All({"state"}, Converted) \cup All({"workdir"}, OwnMessage)

Attributes ==
  All({"create_annotated_commit", "lookup_annotated_commit", "apply_diff",
       "add_attributes_macro", "flush_attributes_cache", "lookup_attribute", "blame_file"}, Checked)
  \cup All({"apply_diff(tree)"}, Filled) \cup All({"for_each_attribute"}, Visiting)
  \cup All({"lookup_multiple_attributes"}, Array)

Branches ==
  All({"create_blob_from_buffer", "create_blob_from_disk", "create_blob_from_workdir",
       "lookup_blob", "create_branch", "delete_branch", "rename_branch", "branch_name"}, Checked)
  \cup All({"delete_branch(name)", "rename_branch(name)"}, Prepared(Checked))
  \cup All({"is_branch_checked_out", "is_head_pointing_to_branch"}, Answered)
  \cup All({"is_branch_checked_out(name)", "is_head_pointing_to_branch(name)"},
           Prepared(Answered))
  \cup All({"branch_remote_name"}, Filled)

Upstreams ==
  All({"set_branch_upstream", "unset_branch_upstream", "branch_upstream", "lookup_branch"}, Checked)
  \cup All({"set_branch_upstream(name)", "unset_branch_upstream(name)",
            "branch_upstream(name)"}, Prepared(Checked))
  \cup All({"branch_upstream_name", "branch_upstream_remote"}, Filled)

BranchLoops == All({"for_each_branch"}, Loop)

Checkouts ==
  All({"checkout_head", "checkout_index", "checkout_tree", "cherrypick_commit", "create_commit",
       "create_commit(signed)", "lookup_commit"}, Checked)
  \cup All({"create_commit(buffer)"}, Filled)

(* The codes that set the walker up are lost.  One that could not be allocated
   is used before its code is looked at, which is left out. *)
CommitLoops == All({"for_each_commit"}, <<"malloc", "drop", "drop", "visit", "free">>)

Diffs ==
  All({"add_ondisk_config_file", "create_diff_index_to_index", "create_diff_index_to_workdir",
       "create_diff_tree_to_index", "create_diff_tree_to_tree", "create_diff_tree_to_workdir",
       "create_diff_tree_to_workdir_with_index", "unique_commits_ahead_behind",
       "add_ignore_rules", "clear_ignore_rules", "is_path_ignored"}, Checked)
  \cup All({"create_diff_commit_as_email"}, Filled)
  \cup All({"is_descendant_of"}, Converted)

MergeBases ==
  All({"find_merge_base", "find_merge_base_for_octopus_merge"}, Checked)
  \cup All({"find_merge_bases"}, Kept)

Notes ==
  All({"merge_commits(index)", "merge_trees", "create_note", "read_note", "remove_note",
       "lookup_object", "initialize_pack_builder"}, Checked)
  \cup All({"detault_notes_reference"}, Filled) \cup All({"for_each_note"}, Visiting)

References ==
  All({"init_rebase", "open_rebase", "create_refdb", "open_refdb", "create_reference",
       "delete_reference", "lookup_reference_by_dwim", "ensure_reflog_for_reference",
       "reference_list", "lookup_reference", "reference_name_to_id",
       "create_symbolic_reference"}, Checked)
  \cup All({"reference_has_reflog"}, Converted)

ReferenceLoops ==
  All({"for_each_reference", "for_each_reference_name", "for_each_reference_glob"}, Loop)

Remotes ==
  All({"delete_reflog", "read_reflog", "rename_reflog", "reset", "reset_default",
       "add_fetch_refspec_to_remote", "add_push_refspec_to_remote", "create_remote",
       "create_anonymous_remote", "delete_remote", "remote_list", "lookup_remote",
       "rename_remote", "set_remote_autotag", "set_remote_push_url", "set_remote_url",
       "revert_commit"}, Checked)

Stashes ==
  All({"revparse_to_object", "create_revwalk", "apply_stash", "drop_stash", "pop_stash",
       "save_stash", "status_file", "status_list", "should_ignore"}, Checked)
  \cup All({"default_signature"}, Kept)
  \cup All({"for_each_stash", "for_each_status"}, Visiting)

Submodules ==
  All({"setup_submodule", "lookup_submodule", "set_submodule_branch",
       "set_submodule_fetch_recurse_option", "set_submodule_ignore_option",
       "set_submodule_update_option", "set_submodule_url", "submodule_status"}, Checked)
  \cup All({"for_each_submodule"}, Visiting) \cup All({"resolve_submodule_url"}, Filled)

Tags ==
  All({"create_tag_annotation", "create_tag", "create_lightweight_tag", "delete_tag", "tags",
       "tags_that_match", "lookup_tag", "create_transaction"}, Checked)
  \cup All({"for_each_tag"}, Visiting)

Worktrees ==
  All({"tree_entry_to_object", "lookup_tree", "add_worktree", "list_worktrees",
       "lookup_worktree", "open_worktree"}, Checked)
  \cup All({"create_updated_tree"}, Array)

-----------------------------------------------------------------------------
(* config.cpp, odb.cpp *)

(* Mutant: delete_entry does not look at its code. *)
DeletesUnchecked == All({"delete_entry"}, Dropped)

ConfigDeletes == All({"delete_entry"}, Checked)

ConfigValues ==
  All({"new_config", "open_default_config", "open_global_config",
       "open_config_at_level", "operator[]", "value_as_bool", "value_as_int32",
       "value_as_int64"}, Checked)
  \cup All({"value_as_string"}, <<"call", "inverted">>)

ConfigEntries ==
  All({"insert_entry", "insert_multiple", "lock", "parse_as_bool", "parse_as_int32",
       "parse_as_int64", "snapshot"}, Checked)
  \cup All({"for_each"}, Visiting) \cup All({"c_ptr"}, Getter)

(* It counts the entries an iterator gives. *)
ConfigSize == All({"size"}, <<"fill", "call", "free">>)

NewOdb == All({"odb"}, Dropped)

OdbBackends ==
  All({"add_alternate_backend", "add_backend", "add_disk_alternate_backend",
       "create_backend_for_loose_objects", "create_backend_for_one_packfile",
       "create_backend_for_packfiles", "expand_ids", "exists(prefix)"}, Checked)
  \cup All({"exists"}, Getter) \cup All({"for_each"}, Visiting)

OdbObjects ==
  All({"hash", "hash_file", "operator[]", "read", "read_header", "read_prefix", "refresh",
       "open", "open_rstream", "open_wstream", "write"}, Checked)
  \cup All({"size", "c_ptr"}, Getter)

(* object.cpp, commit.cpp, tree.cpp, tag.cpp, reference.cpp, note.cpp *)

Objects ==
  All({"id", "object_type_to_string", "type", "type_string", "type_from_string",
       "string_from_type", "is_type_loose", "owner"}, Getter)
  \cup All({"copy", "peel_until"}, Checked)
  \cup All({"as_commit", "as_tree", "as_tag"}, OwnMessage)
  \cup All({"as_blob"}, OwnMessage \o Checked)

Commits ==
  All({"author", "committer"}, Kept)
  \cup All({"amend", "copy", "ancestor", "parent", "tree"}, Checked)
  \cup All({"body", "id", "message", "message_encoding", "message_raw", "parent_id",
          "parent_count", "raw_header", "summary", "time", "time_offset", "tree_id", "owner",
          "c_ptr"}, Getter)

Trees ==
  All({"lookup_entry_by_id", "lookup_entry_by_index", "lookup_entry_by_name", "id", "size",
       "owner", "c_ptr"}, Getter)
  \cup All({"lookup_entry_by_path", "copy"}, Checked) \cup All({"walk"}, Visiting)

TagObjects ==
  All({"copy", "peel", "target"}, Checked) \cup All({"tagger"}, Kept)
  \cup All({"id", "message", "name", "target_id", "target_type", "owner", "c_ptr"}, Getter)

ReferenceObjects ==
  All({"compare", "is_branch", "is_note", "is_remote", "is_tag", "is_valid_name", "name",
       "shorthand_name", "owner", "target", "symbolic_target", "peeled_target", "type",
       "c_ptr"}, Getter)
  \cup All({"copy", "delete_reference", "peel_until", "rename", "resolve", "set_target",
          "set_symbolic_target"}, Checked)
  \cup All({"normalize_name"}, Array)

NoteObjects == All({"author", "committer"}, Kept) \cup All({"id", "message", "c_ptr"}, Getter)

(* The constructors and accessors of signature, which has no destructor. *)
Signatures ==
  All({"signature", "copy"}, Kept) \cup All({"name", "email", "time", "offset"}, OwnMessage)

Oids ==
  All({"oid(hex_string)", "oid(hex_string, length)"}, Checked)
  \cup All({"oid(c_ptr)"}, <<"call", "null", "call", "check">>)
  \cup All({"to_hex_string"}, NullThrows)
  \cup All({"oid(raw)", "compare", "copy", "is_zero", "operator==", "to_path_string",
          "c_ptr"}, Getter)

-----------------------------------------------------------------------------
(* diff.cpp, patch.cpp, blame.cpp, index.cpp *)

DiffObjects ==
  All({"operator[]", "is_sorted_case_sensitive", "size", "status_char", "c_ptr"}, Getter)
  \cup All({"compare_files", "merge", "diff_stats"}, Checked)
  \cup All({"to_string", "format_email"}, Filled)

DiffVisits == All({"for_each", "print"}, Visiting)

DiffBuffers ==
  All({"diff_blob_to_buffer", "diff_between_buffers"}, Visiting)
  \cup All({"find_similar", "patchid"}, Checked)

NewPatch == All({"patch"}, Checked)

Patches ==
  All({"hunk", "line_in_hunk", "line_stats"}, Checked)
  \cup All({"delta", "num_hunks", "num_lines_in_hunk", "size", "c_ptr"}, Getter)
  \cup All({"print"}, Visiting) \cup All({"to_buffer"}, Filled)

Blames ==
  All({"get_blame_for_buffer"}, Checked)
  \cup All({"hunk_by_index", "hunk_by_line", "hunk_count", "c_ptr"}, Getter)

NewIndex == All({"index"}, Dropped)

IndexEntries ==
  All({"add_entry", "add_entry_by_path", "add_entry_from_buffer", "clear",
       "add_conflict_entry", "remove_all_conflicts", "remove_conflict_entries", "find_first",
       "find_first_matching_prefix"}, Checked)
  \cup All({"add_entries_that_match"}, Visiting)
  \cup All({"capability_flags", "checksum", "size"}, Getter)

IndexLoops == All({"for_each", "for_each_conflict"}, Loop)

IndexFile ==
  All({"operator[]", "entry_in_path"}, NullThrows)
  \cup All({"has_conflicts", "path", "version", "owner", "c_ptr"}, Getter)
  \cup All({"read", "read_tree", "remove_entry", "remove_entry_by_path",
          "remove_entries_in_directory", "set_index_capabilities", "set_version", "write",
          "write_tree", "write_tree_to", "open"}, Checked)
  \cup All({"remove_entries_that_match", "update_entries_that_match"}, Visiting)

-----------------------------------------------------------------------------
(* The remaining wrappers *)

Remote ==
  All({"connect", "copy", "create_detached_remote", "create_remote", "disconnect", "download",
       "fetch_", "fetch_refspec", "push_refspec"}, Checked)
  \cup All({"default_branch"}, Filled)
  \cup All({"autotag_option", "is_connected", "is_valid_name"}, Getter)

RemoteUpdates ==
  All({"prune", "prune_references", "push", "stop", "update_tips", "upload"}, Checked)
  \cup All({"name", "owner", "push_url", "size", "operator[]", "stats", "url"}, Getter)

Refspec ==
  All({"parse"}, Checked) \cup All({"transform_target_to_source_reference"}, Filled)
  \cup All({"direction", "destination", "destination_matches_reference", "is_force_update_enabled",
          "source", "source_matches_reference", "to_string", "c_ptr"}, Getter)

Credential == All({"credential"}, Checked)

CredentialUser == All({"username", "has_username", "c_ptr"}, Getter)

Submodule ==
  All({"init", "resolve_setup", "add_to_index", "initialize_repository", "reload",
       "open_repository", "sync", "location_status", "clone", "update"}, Checked)
  \cup All({"branch_name", "recurse_submodules_option", "head_id", "ignore_option",
          "get_update_strategy", "index_id", "name", "path", "owner", "url", "c_ptr"}, Getter)

Worktree ==
  All({"is_locked"}, <<"fill", "bool", "free">>)
  \cup All({"is_prunable(version, flags)"}, Answered)
  \cup All({"is_prunable"}, Prepared(Answered))
  \cup All({"lock", "prune(version, flags)", "unlock"}, Checked)
  \cup All({"prune"}, Prepared(Checked))
  \cup All({"name", "path", "is_valid", "c_ptr"}, Getter) \cup All({"validate"}, NullThrows)

Reflog ==
  All({"remove", "append", "write_to_disk"}, Checked)
  \cup All({"operator[]", "size", "c_ptr"}, Getter)

TreeBuilder ==
  All({"clear"}, Dropped) \cup All({"filter"}, <<"visit">>)
  \cup All({"insert", "remove", "write"}, Checked)
  \cup All({"size", "operator[]", "c_ptr"}, Getter)

Pathspec ==
  All({"compile"}, Checked) \cup All({"matches_path", "c_ptr"}, Getter)
  \cup All({"match_diff", "match_index", "match_tree", "match_workdir"}, Listed)

PackBuilder ==
  All({"for_each_object", "write"}, Visiting) \cup All({"write_to_buffer"}, Filled)
  \cup All({"insert_commit", "insert_object", "insert_object_recursively", "insert_tree",
          "insert_revwalk", "set_progress_callback", "set_threads"}, Checked)
  \cup All({"hash", "id", "size", "written", "c_ptr"}, Getter)

Indexer == All({"append", "commit"}, Checked) \cup All({"hash"}, Getter)

RevWalks ==
  All({"add_hide_callback", "hide", "hide_glob", "hide_head", "hide_reference", "push",
       "push_glob", "push_head", "push_range", "push_reference", "reset", "set_sorting_mode",
       "simplify_first_parent"}, Checked)
  \cup All({"next"}, Dropped)
  \cup All({"done", "repository", "c_ptr"}, Getter)

RebaseCalls ==
  All({"abort", "commit", "finish", "index", "next"}, Checked)
  \cup All({"onto_id", "onto_refname", "operator[]", "current_operation", "size",
          "original_head_id", "original_head_name"}, Getter)

AnnotatedCommits == All({"id", "refname", "c_ptr"}, Getter)

-----------------------------------------------------------------------------
(* The functions of a class: <<class, name, program>>. *)
Class(class, table) == {<<class, f[1], f[2]>> : f \in table}

Repository ==
  Opened \cup Heads \cup State \cup Attributes \cup Branches \cup Upstreams
    \cup BranchLoops \cup Checkouts \cup CommitLoops \cup Diffs \cup MergeBases
    \cup Notes \cup References \cup ReferenceLoops \cup Remotes \cup Stashes
    \cup Submodules \cup Tags \cup Worktrees

Config == ConfigDeletes \cup ConfigValues \cup ConfigEntries \cup ConfigSize

FacadeFunctions ==
  UNION {Class("repository", Repository), Class("config", Config),
         Class("odb", NewOdb \cup OdbBackends \cup OdbObjects),
         Class("object", Objects), Class("commit", Commits), Class("tree", Trees),
         Class("tag", TagObjects), Class("reference", ReferenceObjects),
         Class("note", NoteObjects), Class("signature", Signatures), Class("oid", Oids),
         Class("diff", DiffObjects \cup DiffVisits \cup DiffBuffers),
         Class("patch", NewPatch \cup Patches), Class("blame", Blames),
         Class("index", NewIndex \cup IndexEntries \cup IndexLoops \cup IndexFile),
         Class("remote", Remote \cup RemoteUpdates), Class("refspec", Refspec),
         Class("credential", Credential \cup CredentialUser), Class("submodule", Submodule),
         Class("worktree", Worktree), Class("reflog", Reflog),
         Class("tree_builder", TreeBuilder), Class("pathspec", Pathspec),
         Class("pack_builder", PackBuilder), Class("indexer", Indexer),
         Class("revwalk", RevWalks), Class("rebase", RebaseCalls),
         Class("annotated_commit", AnnotatedCommits)}

(* The functions that can return normally although libgit2 failed: they drop a
   code, convert it, or look at it the wrong way round. *)
Hides ==
  ({"repository"} \X {"is_shallow", "state", "remove_message", "is_descendant_of",
                      "reference_has_reflog", "for_each_branch", "for_each_commit",
                      "for_each_reference", "for_each_reference_name",
                      "for_each_reference_glob"})
  \cup ({"config"} \X {"value_as_string", "size"})
  \cup ({"index"} \X {"index", "for_each", "for_each_conflict"})
  \cup ({"tree_builder"} \X {"clear", "filter"})
  \cup {<<"odb", "odb">>, <<"revwalk", "next">>}

(* Those that can be left with memory nobody owns: they wrap a raw result in a
   class without a destructor, or an exception, of a check or of a visitor,
   passes by the release. *)
Loses ==
  ({"repository"} \X {"lookup_multiple_attributes", "find_merge_bases", "default_signature",
                      "create_updated_tree", "for_each_branch", "for_each_commit",
                      "for_each_reference", "for_each_reference_name",
                      "for_each_reference_glob"})
  \cup ({"commit", "note"} \X {"author", "committer"})
  \cup ({"signature"} \X {"signature", "copy"})
  \cup ({"index"} \X {"for_each", "for_each_conflict"})
  \cup ({"pathspec"} \X {"match_diff", "match_index", "match_tree", "match_workdir"})
  \cup {<<"tag", "tagger">>, <<"reference", "normalize_name">>}

=============================================================================
