-------------------------------- MODULE Website --------------------------------
(***************************************************************************)
(* A school's public site: its settings and its posts, as their server     *)
(* side keeps them (backend/src/site-settings, backend/src/posts) and as   *)
(* the pages of the administrator edit them                                *)
(* (frontend/app/admin/appearance: page.tsx, posts/page.tsx,               *)
(* posts/PostEditorForm.tsx).  One tab, and other administrators.          *)
(***************************************************************************)
EXTENDS Integers, FiniteSets, Sequences, SequencesExt

CONSTANTS
  Upload,    \* images being compressed at a time
  Post,
  Slides,    \* bound: slides of the banner
  Edits,     \* bound: what is typed, pressed and written elsewhere
  Faults,    \* bound: requests that fail
  Deeds      \* the pages of the instance: "settings", "posts"

VARIABLES
  site,      \* the SiteSetting row: the banner's slides, and all its texts as one
  page,      \* the appearance page
  upload,    \* images being compressed, with what their callback holds on to
  save,      \* the PATCH of the settings, and what happened since it left (since an
             \* earlier one left, while the page still says that that one was saved)
  post,      \* the Post rows
  desk,      \* the list of posts
  call,      \* the command of the list that runs
  editor,    \* the post editor
  work, misses

webVars == <<site, page, upload, save, post, desk, call, editor, work, misses>>

Default == [text |-> 0, slides |-> <<>>]
NoUpload == [slide |-> 0, slides |-> <<>>]
NoSave == [at |-> "idle", body |-> Default, since |-> {}]
NoPost == [state |-> "none", title |-> 0, body |-> "blank"]
Written(v) == [state |-> "draft", title |-> v, body |-> "written"]
NoDesk == [rows |-> [p \in Post |-> "none"], loads |-> {}, picked |-> {}, confirm |-> {}]
NoCall == [kind |-> "idle", todo |-> {}, all |-> {}, to |-> "none"]
Closed == [at |-> "closed", on |-> {}, form |-> NoPost]
There == {"draft", "live"}

WebsiteTypeOK ==
  /\ site.text \in 0..Edits /\ Len(site.slides) <= Slides
  /\ page.at \in {"loading", "ready"} /\ page.saved \in BOOLEAN /\ Len(page.set.slides) <= Slides
  /\ save.at \in {"idle", "sent", "done", "refused"} /\ save.since \subseteq {"edit", "other"}
  /\ \A p \in Post : post[p].state \in There \cup {"none", "gone"}
  /\ desk.picked \subseteq Post /\ call.todo \subseteq call.all
  /\ editor.at \in {"closed", "loading", "open", "missing", "saving"}
  /\ work \in 0..Edits /\ misses \in 0..Faults

WebsiteInit ==
  /\ site = Default
  /\ page = [at |-> "loading", set |-> Default, saved |-> FALSE]
  /\ upload = [u \in Upload |-> NoUpload] /\ save = NoSave
  /\ post = [p \in Post |-> IF "posts" \in Deeds THEN Written(0) ELSE NoPost]
  /\ desk = NoDesk /\ call = NoCall /\ editor = Closed
  /\ work = 0 /\ misses = 0

Spend == work < Edits /\ work' = work + 1
Fault == misses < Faults /\ misses' = misses + 1
OnPage == "settings" \in Deeds /\ page.at = "ready"
-----------------------------------------------------------------------------
(* A settings request that fails leaves the defaults on the page, without  *)
(* a word.                                                                 *)
LoadSettings ==
  /\ "settings" \in Deeds /\ page.at = "loading"
  /\ \/ page' = [page EXCEPT !.at = "ready", !.set = site] /\ UNCHANGED misses
     \/ Fault /\ page' = [page EXCEPT !.at = "ready"]
  /\ UNCHANGED <<site, upload, save, post, desk, call, editor, work>>

(* patch; what happens while a save is on its way is remembered.           *)
Patch(set) ==
  /\ page' = [page EXCEPT !.set = set, !.saved = FALSE]
  /\ save' = [save EXCEPT !.since = @ \cup {"edit"}]
EditField ==
  /\ OnPage /\ Spend /\ Patch([page.set EXCEPT !.text = work'])
  /\ UNCHANGED <<site, upload, post, desk, call, editor, misses>>

Banner(slides) ==
  /\ OnPage /\ Spend /\ Patch([page.set EXCEPT !.slides = slides])
  /\ UNCHANGED <<site, upload, post, desk, call, editor, misses>>
AddSlide ==
  /\ Len(page.set.slides) < Slides
  /\ Banner(Append(page.set.slides, [id |-> work + 1, title |-> 0, image |-> 0]))
UpdateSlide(i) == Banner([page.set.slides EXCEPT ![i].title = work + 1])
MoveSlide(i, j) ==
  /\ {i, j} \subseteq DOMAIN page.set.slides /\ j \in {i - 1, i + 1}
  /\ Banner([page.set.slides EXCEPT ![i] = page.set.slides[j], ![j] = page.set.slides[i]])
RemoveSlide(i) == Banner(RemoveAt(page.set.slides, i))

(* handleFile: the callback it will call is the one of this rendering, and *)
(* updateSlide takes the slides of this rendering with it.                 *)
BeginUpload(u, i) ==
  /\ OnPage /\ upload[u] = NoUpload
  /\ upload' = [upload EXCEPT ![u] = [slide |-> i, slides |-> page.set.slides]]
  /\ UNCHANGED <<site, page, save, post, desk, call, editor, work, misses>>
EndUpload(u) ==
  LET held == upload[u]
  IN /\ held.slide > 0 /\ Spend
     /\ upload' = [upload EXCEPT ![u] = NoUpload]
     /\ Patch([page.set EXCEPT !.slides = [held.slides EXCEPT ![held.slide].image = work']])
     /\ UNCHANGED <<site, post, desk, call, editor, misses>>
FailUpload(u) ==
  /\ upload[u].slide > 0 /\ upload' = [upload EXCEPT ![u] = NoUpload]
  /\ UNCHANGED <<site, page, save, post, desk, call, editor, work, misses>>

(* Faulty variant: save keeps the settings of the first rendering.         *)
SaveFirst ==
  /\ OnPage /\ save.at = "idle"
  /\ save' = [at |-> "sent", body |-> Default, since |-> IF page.saved THEN save.since ELSE {}]
  /\ UNCHANGED <<site, page, upload, post, desk, call, editor, work, misses>>
Save ==
  /\ OnPage /\ save.at = "idle"
  /\ save' = [at |-> "sent", body |-> page.set, since |-> IF page.saved THEN save.since ELSE {}]
  /\ UNCHANGED <<site, page, upload, post, desk, call, editor, work, misses>>
(* update: the whole record, whatever it holds.  An answer may get lost.   *)
UpdateSettings ==
  /\ save.at = "sent"
  /\ \/ site' = save.body /\ save' = [save EXCEPT !.at = "done"] /\ UNCHANGED misses
     \/ Fault /\ site' \in {site, save.body} /\ save' = [save EXCEPT !.at = "refused"]
  /\ UNCHANGED <<page, upload, post, desk, call, editor, work>>
EndSave ==
  /\ save.at \in {"done", "refused"}
  /\ save' = [save EXCEPT !.at = "idle"]
  /\ page' = [page EXCEPT !.saved = @ \/ save.at = "done"]
  /\ UNCHANGED <<site, upload, post, desk, call, editor, work, misses>>
SavedFades ==
  /\ page.saved /\ page' = [page EXCEPT !.saved = FALSE]
  /\ UNCHANGED <<site, upload, save, post, desk, call, editor, work, misses>>
OtherSettings ==
  /\ "settings" \in Deeds /\ Spend
  /\ site' = [site EXCEPT !.text = work'] /\ save' = [save EXCEPT !.since = @ \cup {"other"}]
  /\ UNCHANGED <<page, upload, post, desk, call, editor, misses>>
-----------------------------------------------------------------------------
(* update and remove of posts.service: a post that is gone is not found.   *)
Becomes(p, to) ==
  post' = IF post[p].state \in There THEN [post EXCEPT ![p].state = to] ELSE post
Rows == [p \in Post |-> post[p].state]

LoadPosts ==
  /\ "posts" \in Deeds /\ Spend
  /\ desk' = [desk EXCEPT !.loads = @ \cup {Rows}]
  /\ UNCHANGED <<site, page, upload, save, post, call, editor, misses>>
(* Nothing orders the answers of two loads.                                *)
ShowPosts(rows) ==
  /\ rows \in desk.loads
  /\ desk' = [desk EXCEPT !.rows = rows, !.loads = @ \ {rows}]
  /\ UNCHANGED <<site, page, upload, save, post, call, editor, work, misses>>

Listed == {p \in Post : desk.rows[p] \in There}
Pick(p) ==
  /\ p \in Listed
  /\ desk' = [desk EXCEPT !.picked = IF p \in @ THEN @ \ {p} ELSE @ \cup {p}]
  /\ UNCHANGED <<site, page, upload, save, post, call, editor, work, misses>>
Command(kind, ids, to) ==
  /\ call = NoCall /\ ids # {} /\ Spend
  /\ call' = [kind |-> kind, todo |-> ids, all |-> ids, to |-> to]
  /\ UNCHANGED <<site, page, upload, save, post, editor, misses>>
TogglePublish(p) ==
  /\ p \in Listed /\ Command("toggle", {p}, IF desk.rows[p] = "live" THEN "draft" ELSE "live")
  /\ UNCHANGED desk
ApplyBulk(to) == Command("bulk", desk.picked, to) /\ UNCHANGED desk
AskDelete(ids) ==
  /\ ids # {} /\ ids \subseteq Listed /\ desk' = [desk EXCEPT !.confirm = ids]
  /\ UNCHANGED <<site, page, upload, save, post, call, editor, work, misses>>
ConfirmDelete == Command("trash", desk.confirm, "gone") /\ UNCHANGED desk

(* The requests of a command run side by side; whether one succeeds is     *)
(* looked at only for a single post.                                       *)
ServePost(p) ==
  /\ p \in call.todo
  /\ \/ Becomes(p, call.to) /\ UNCHANGED misses /\ call' = [call EXCEPT !.todo = @ \ {p}]
     \/ /\ Fault /\ UNCHANGED post
        /\ call' = IF call.kind = "toggle" THEN NoCall ELSE [call EXCEPT !.todo = @ \ {p}]
  /\ UNCHANGED <<site, page, upload, save, desk, editor, work>>
EndCommand ==
  /\ call # NoCall /\ call.todo = {} /\ call' = NoCall
  /\ desk' = CASE call.kind = "toggle" ->
                    [desk EXCEPT !.rows = [p \in Post |-> IF p \in call.all THEN post[p].state ELSE @[p]]]
               [] call.kind = "bulk" -> [desk EXCEPT !.picked = {}, !.loads = @ \cup {Rows}]
               [] OTHER -> [desk EXCEPT !.picked = {}, !.confirm = {},
                              !.rows = [p \in Post |-> IF p \in call.all THEN "gone" ELSE @[p]]]
  /\ UNCHANGED <<site, page, upload, save, post, editor, work, misses>>
-----------------------------------------------------------------------------
OpenEditor(p) ==
  /\ "posts" \in Deeds /\ editor.at \in {"closed", "missing"} /\ Spend
  /\ editor' = [at |-> IF post[p].state = "none" THEN "open" ELSE "loading", on |-> {p}, form |-> NoPost]
  /\ UNCHANGED <<site, page, upload, save, post, desk, call, misses>>
(* Faulty variant: a post that did not load is edited from an empty form,  *)
(* as the settings are.                                                    *)
EmptyForm(p) ==
  /\ editor.at = "loading" /\ p \in editor.on
  /\ \/ editor' = [editor EXCEPT !.at = "open", !.form = post[p]] /\ UNCHANGED misses
     \/ Fault /\ editor' = [editor EXCEPT !.at = "open"]
  /\ UNCHANGED <<site, page, upload, save, post, desk, call, work>>
LoadPost(p) ==
  /\ editor.at = "loading" /\ p \in editor.on
  /\ \/ /\ post[p].state \in There /\ UNCHANGED misses
        /\ editor' = [editor EXCEPT !.at = "open", !.form = post[p]]
     \/ /\ post[p].state = "gone" /\ UNCHANGED misses /\ editor' = [editor EXCEPT !.at = "missing"]
     \/ Fault /\ editor' = [editor EXCEPT !.at = "missing"]
  /\ UNCHANGED <<site, page, upload, save, post, desk, call, work>>
(* set: a title, and perhaps a body; nobody empties a body here.           *)
TypePost(body) ==
  /\ editor.at = "open" /\ Spend
  /\ editor' = [editor EXCEPT !.form.title = work', !.form.body = IF body THEN "written" ELSE @]
  /\ UNCHANGED <<site, page, upload, save, post, desk, call, misses>>
(* save: a new post becomes what the button says, another what its form    *)
(* says; the whole form is sent.                                           *)
SavePost(p, to) ==
  /\ editor.at = "open" /\ p \in editor.on
  /\ post[p].state = "none" => editor.form.title > 0
  /\ editor' = [editor EXCEPT !.at = "saving", !.form.state = to]
  /\ UNCHANGED <<site, page, upload, save, post, desk, call, work, misses>>
StorePost(p) ==
  /\ editor.at = "saving" /\ p \in editor.on
  /\ \/ /\ post[p].state # "gone" /\ UNCHANGED misses
        /\ post' = [post EXCEPT ![p] = editor.form] /\ editor' = Closed
     \/ /\ post[p].state = "gone" /\ UNCHANGED <<post, misses>> /\ editor' = [editor EXCEPT !.at = "open"]
     \/ /\ Fault /\ post' \in {post, [post EXCEPT ![p] = IF @.state = "gone" THEN @ ELSE editor.form]}
        /\ editor' = [editor EXCEPT !.at = "open"]
  /\ UNCHANGED <<site, page, upload, save, desk, call, work>>
DeletePost(p) ==
  /\ editor.at = "open" /\ p \in editor.on /\ post[p].state # "none" /\ editor' = Closed
  /\ \/ Becomes(p, "gone") /\ UNCHANGED misses
     \/ Fault /\ UNCHANGED post
  /\ UNCHANGED <<site, page, upload, save, desk, call, work>>
OtherPost(p, to) ==
  /\ "posts" \in Deeds /\ post[p].state \in There /\ Spend /\ Becomes(p, to)
  /\ UNCHANGED <<site, page, upload, save, desk, call, editor, misses>>

WebsiteNext ==
  \/ LoadSettings \/ EditField \/ AddSlide \/ Save \/ UpdateSettings \/ EndSave \/ SavedFades
  \/ OtherSettings
  \/ \E i \in DOMAIN page.set.slides :
       \/ UpdateSlide(i) \/ RemoveSlide(i) \/ MoveSlide(i, i + 1) \/ MoveSlide(i, i - 1)
       \/ \E u \in Upload : BeginUpload(u, i)
  \/ \E u \in Upload : EndUpload(u) \/ FailUpload(u)
  \/ LoadPosts \/ (\E rows \in desk.loads : ShowPosts(rows)) \/ ConfirmDelete \/ EndCommand
  \/ \E ids \in SUBSET Post : AskDelete(ids)
  \/ \E to \in There : ApplyBulk(to)
  \/ \E p \in Post :
       \/ Pick(p) \/ TogglePublish(p) \/ ServePost(p) \/ OpenEditor(p) \/ LoadPost(p)
       \/ StorePost(p) \/ DeletePost(p)
       \/ \E to \in There : SavePost(p, to)
       \/ \E to \in There \cup {"gone"} : OtherPost(p, to)
  \/ \E body \in BOOLEAN : TypePost(body)
-----------------------------------------------------------------------------
(* While the page says "Saved", what it shows is what the school's site    *)
(* has, if nothing was edited and nobody else saved since the save left.   *)
SavedIsStored ==
  page.saved /\ save.since = {} => site = page.set

(* Editing a post never empties the body that it has.                      *)
BodyIsKept ==
  [][\A p \in Post : post[p].state \in There /\ post[p].body = "written"
                       => post'[p].body = "written"]_webVars

(* Refuted: "Saved" although an edit followed the save that ended; an      *)
(* image's end takes back the edits of slides made meanwhile; a page that  *)
(* loaded earlier, or not at all, saves its texts over the site's; a post  *)
(* that could not be deleted leaves the list.                              *)
SavedMeansSaved == page.saved => "edit" \notin save.since
UploadKeepsEdits ==
  [][\A u \in Upload : upload[u].slide > 0 /\ upload'[u].slide = 0 /\ page'.set # page.set
       => Len(page'.set.slides) = Len(page.set.slides)
          /\ \A i \in DOMAIN page.set.slides : page'.set.slides[i].title = page.set.slides[i].title]_webVars
SiteIsKept == [][site.text # 0 => site'.text # 0]_webVars
DeletedIsGone == \A p \in Post : desk.rows[p] = "gone" => post[p].state = "gone"
=============================================================================
