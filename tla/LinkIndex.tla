----------------------------- MODULE LinkIndex -----------------------------
(***************************************************************************)
(* Link records and what is derived from them under the same change set:   *)
(* the category and submitter indexes, the URL-hash index that finds       *)
(* duplicates, and the stored vector of a link (operations_link.zig,       *)
(* apply_link.zig, put_link_vectors, and delete_category, which deletes    *)
(* the links of a category one commit at a time).                          *)
(*                                                                         *)
(* Every write holds write_mutex from its first read to the end of apply   *)
(* and is one step, but for delete_category: its commits are steps, and a  *)
(* crash may fall between them.  A page of its links holds one link.       *)
(* Which change sets survive a crash is CommitRecovery's concern, what the *)
(* Bloom filter adds to the duplicate check that of DerivedIndexes.        *)
(***************************************************************************)
EXTENDS Naturals, FiniteSets

CONSTANTS
    Url,         \* urls
    UrlHash,     \* the values of the url hash
    Hash,        \* codec.hash: two urls may have the same hash
    Submitter,   \* submitter ids
    Anonymous,   \* submitter id 0, which is not indexed
    Text,        \* title and description
    PagesMax,    \* delete_link_pages_max
    MaxId,       \* bound: link ids ever issued
    MaxCategory  \* bound: category ids ever issued

ASSUME HashAssumption == Hash \in [Url -> UrlHash]
ASSUME SentinelAssumption == Anonymous \notin Submitter
ASSUME BoundAssumption == PagesMax \in Nat \ {0} /\ MaxId \in Nat /\ MaxCategory \in Nat

VARIABLES
    cats,         \* categories_by_id: the live categories
    nextCat,      \* Directory.next_category_id
    links,        \* links_by_id
    nextId,       \* Directory.next_link_id
    byCategory,   \* link_by_category, a set of keys
    bySubmitter,  \* link_by_submitter, a set of keys
    byHash,       \* link_by_url_hash: hash -> link id
    vectors,      \* link_vectors: link id -> the text its vector was made from
    deleting,     \* the delete_category that holds write_mutex, if any
    overtaken     \* history: live links whose hash entry another link took

vars == <<cats, nextCat, links, nextId, byCategory, bySubmitter, byHash, vectors,
          deleting, overtaken>>

LinkId == 1..MaxId
Category == 1..MaxCategory
NoCategory == 0    \* a link that is in no category
Link == [url : Url, category : Category \cup {NoCategory},
         submitter : Submitter \cup {Anonymous}, text : Text]

Live == DOMAIN links
Idle == [category |-> NoCategory, left |-> 0]
Unlocked == deleting = Idle

(* f without key k; f with key k set to v.                                 *)
Without(f, k) == [x \in DOMAIN f \ {k} |-> f[x]]
With(f, k, v) == [x \in DOMAIN f \cup {k} |-> IF x = k THEN v ELSE f[x]]

Init ==
    /\ cats = {} /\ nextCat = 1 /\ links = <<>> /\ nextId = 1
    /\ byCategory = {} /\ bySubmitter = {} /\ byHash = <<>> /\ vectors = <<>>
    /\ deleting = Idle /\ overtaken = {}

-----------------------------------------------------------------------------
(* The url-hash index.                                                     *)

(* create_link_url_taken behind the Bloom filter: the owner of the hash is *)
(* compared url by url.                                                    *)
UrlTakenInCategory(url) ==    \* mutant: the owner must be in a category
    /\ Hash[url] \in DOMAIN byHash
    /\ byHash[Hash[url]] \in Live
    /\ links[byHash[Hash[url]]].url = url
    /\ links[byHash[Hash[url]]].category # NoCategory

UrlTaken(url) ==
    /\ Hash[url] \in DOMAIN byHash
    /\ byHash[Hash[url]] \in Live
    /\ links[byHash[Hash[url]]].url = url

(* delete_url_hash_if_owned_by: the index without the url's entry, if the  *)
(* entry is the link's.                                                    *)
DisownedAlways(url, id) == Without(byHash, Hash[url])    \* mutant

Disowned(url, id) ==
    IF Hash[url] \in DOMAIN byHash /\ byHash[Hash[url]] = id
    THEN Without(byHash, Hash[url]) ELSE byHash

(* The links that own an entry of the index under the url's hash.          *)
OwnersOf(index, url) ==
    IF Hash[url] \in DOMAIN index THEN {index[Hash[url]]} ELSE {}

-----------------------------------------------------------------------------
(* Links.                                                                  *)

IssueId == nextId' = nextId + 1

(* create_link: a category that exists or none, a url not taken.           *)
CreateLink ==
    /\ Unlocked
    /\ nextId <= MaxId
    /\ \E link \in Link :
        /\ link.category \in cats \cup {NoCategory}
        /\ ~UrlTaken(link.url)
        /\ links' = With(links, nextId, link)
        /\ byCategory' = byCategory \cup {<<link.category, nextId>>}
        /\ byHash' = With(byHash, Hash[link.url], nextId)
        /\ bySubmitter' = IF link.submitter = Anonymous THEN bySubmitter
                          ELSE bySubmitter \cup {<<link.submitter, nextId>>}
        /\ overtaken' = overtaken \cup OwnersOf(byHash, link.url)
    /\ IssueId
    /\ UNCHANGED <<cats, nextCat, vectors, deleting>>

(* The vector goes when the text it was made from changes.                 *)
VectorsAfterUpdate(id, new) ==
    IF links[id].text # new.text THEN Without(vectors, id) ELSE vectors

(* update_link: any url, also one another link has; the entry of the new   *)
(* url is taken over from whoever owns it.                                 *)
UpdateLink ==
    /\ Unlocked
    /\ \E id \in Live, url \in Url, text \in Text :
        LET new == [url |-> url, category |-> links[id].category,
                    submitter |-> links[id].submitter, text |-> text]
            disowned == Disowned(links[id].url, id)
        IN  /\ links' = With(links, id, new)
            /\ vectors' = VectorsAfterUpdate(id, new)
            /\ IF url = links[id].url
               THEN UNCHANGED <<byHash, overtaken>>
               ELSE /\ byHash' = With(disowned, Hash[url], id)
                    /\ overtaken' = (overtaken \cup OwnersOf(disowned, url)) \ {id}
    /\ UNCHANGED <<cats, nextCat, nextId, byCategory, bySubmitter, deleting>>

(* The category index after a move: the old key goes, the new one comes.   *)
MovedKeyTwice(id, from, to) == byCategory \cup {<<to, id>>}    \* mutant

MovedKey(id, from, to) == (byCategory \ {<<from, id>>}) \cup {<<to, id>>}

(* move_link, to another category that exists.                             *)
MoveLink ==
    /\ Unlocked
    /\ \E id \in Live, category \in cats :
        /\ links[id].category # category
        /\ links' = With(links, id, [links[id] EXCEPT !.category = category])
        /\ byCategory' = MovedKey(id, links[id].category, category)
    /\ UNCHANGED <<cats, nextCat, nextId, bySubmitter, byHash, vectors, deleting, overtaken>>

(* apply_link_deleted.                                                     *)
Deleted(id) ==
    /\ links' = Without(links, id)
    /\ byCategory' = byCategory \ {<<links[id].category, id>>}
    /\ bySubmitter' = bySubmitter \ {<<links[id].submitter, id>>}
    /\ byHash' = Disowned(links[id].url, id)
    /\ vectors' = Without(vectors, id)
    /\ overtaken' = overtaken \ {id}

DeleteLink ==
    /\ Unlocked
    /\ \E id \in Live : Deleted(id)
    /\ UNCHANGED <<cats, nextCat, nextId, deleting>>

(* put_link_vectors: only for a link that still has the text the vector    *)
(* was made from, by its fingerprint.                                      *)
PutLinkVector ==
    /\ Unlocked
    /\ \E id \in Live, text \in Text :
        /\ links[id].text = text
        /\ vectors' = With(vectors, id, text)
    /\ UNCHANGED <<cats, nextCat, links, nextId, byCategory, bySubmitter, byHash,
                   deleting, overtaken>>

-----------------------------------------------------------------------------
(* Categories, as far as links see them.                                   *)

CreateCategory ==
    /\ Unlocked
    /\ nextCat <= MaxCategory
    /\ cats' = cats \cup {nextCat}
    /\ nextCat' = nextCat + 1
    /\ UNCHANGED <<links, nextId, byCategory, bySubmitter, byHash, vectors,
                   deleting, overtaken>>

(* delete_category takes write_mutex for all of its commits.               *)
DeleteCategoryStart ==
    /\ Unlocked
    /\ \E category \in cats :
        deleting' = [category |-> category, left |-> PagesMax]
    /\ UNCHANGED <<cats, nextCat, links, nextId, byCategory, bySubmitter, byHash,
                   vectors, overtaken>>

(* list_links: what the category index lists and links_by_id still has.    *)
Listed(category) == {id \in Live : <<category, id>> \in byCategory}

DeleteCategoryLink ==
    /\ ~Unlocked
    /\ deleting.left > 0
    /\ \E id \in Listed(deleting.category) :
        /\ \A other \in Listed(deleting.category) : id <= other
        /\ Deleted(id)
    /\ deleting' = [deleting EXCEPT !.left = @ - 1]
    /\ UNCHANGED <<cats, nextCat, nextId>>

(* An empty page ends the deletion of links; a category with more pages    *)
(* than that stays: error.CategoryTooLarge.                                *)
DeleteCategoryFinishAnyway ==    \* mutant: too large a category goes as well
    /\ ~Unlocked
    /\ Listed(deleting.category) = {} \/ deleting.left = 0
    /\ cats' = cats \ {deleting.category}
    /\ deleting' = Idle
    /\ UNCHANGED <<nextCat, links, nextId, byCategory, bySubmitter, byHash, vectors,
                   overtaken>>

DeleteCategoryFinish ==
    /\ ~Unlocked
    /\ \/ /\ deleting.left > 0
          /\ Listed(deleting.category) = {}
          /\ cats' = cats \ {deleting.category}
       \/ /\ deleting.left = 0
          /\ UNCHANGED cats
    /\ deleting' = Idle
    /\ UNCHANGED <<nextCat, links, nextId, byCategory, bySubmitter, byHash, vectors,
                   overtaken>>

(* A crash and restart: what is committed stays, the lock is free.         *)
Restart ==
    /\ ~Unlocked
    /\ deleting' = Idle
    /\ UNCHANGED <<cats, nextCat, links, nextId, byCategory, bySubmitter, byHash,
                   vectors, overtaken>>

Next ==
    \/ CreateLink \/ UpdateLink \/ MoveLink \/ DeleteLink \/ PutLinkVector
    \/ CreateCategory \/ DeleteCategoryStart \/ DeleteCategoryLink \/ DeleteCategoryFinish
    \/ Restart

Spec == Init /\ [][Next]_vars

-----------------------------------------------------------------------------
(* Correctness.                                                            *)

(* Every variable has its type; no id in use is still to be issued.        *)
TypeOK ==
    /\ nextCat \in 1 .. MaxCategory + 1 /\ cats \subseteq 1 .. nextCat - 1
    /\ nextId \in 1 .. MaxId + 1
    /\ Live \subseteq 1 .. nextId - 1
    /\ \A id \in Live : links[id] \in Link
    /\ byCategory \subseteq (Category \cup {NoCategory}) \X LinkId
    /\ bySubmitter \subseteq Submitter \X LinkId
    /\ DOMAIN byHash \subseteq UrlHash
    /\ \A h \in DOMAIN byHash : byHash[h] \in LinkId
    /\ DOMAIN vectors \subseteq LinkId
    /\ \A id \in DOMAIN vectors : vectors[id] \in Text
    /\ deleting \in [category : Category \cup {NoCategory}, left : 0..PagesMax]
    /\ overtaken \subseteq LinkId

(* The category and submitter indexes list exactly the live links, each    *)
(* under its present category and its submitter, across moves, deletes and *)
(* a category deletion that stopped half-way.                              *)
IndexesExact ==
    /\ byCategory = {<<links[id].category, id>> : id \in Live}
    /\ bySubmitter = {<<links[id].submitter, id>> :
                          id \in {i \in Live : links[i].submitter # Anonymous}}

(* An entry of the url-hash index names a live link with that hash, even   *)
(* where urls collide and links share a url: get_link of the owner never   *)
(* misses, and no deleted link keeps a url from being stored again.        *)
HashOwnersAreLive ==
    \A h \in DOMAIN byHash :
        byHash[h] \in Live /\ Hash[links[byHash[h]].url] = h

(* A link loses its entry to another link only by a collision or an        *)
(* update to its url, never to the deletion or update of another owner.    *)
EntryKeptUnlessOvertaken ==
    \A id \in Live \ overtaken :
        Hash[links[id].url] \in DOMAIN byHash /\ byHash[Hash[links[id].url]] = id

(* create_link never stores a url for the second time while the link that  *)
(* has it owns its entry.                                                  *)
NoDuplicateCreated ==
    [][CreateLink =>
        \A id \in Live \ overtaken : links'[nextId].url # links[id].url]_vars

(* "so a stored vector always matches the link's current text" (README.md, *)
(* Vectors): whatever order edits, deletes and late writes come in.        *)
VectorsMatchText ==
    \A id \in DOMAIN vectors : id \in Live /\ vectors[id] = links[id].text

(* No link is left in a category that is gone, though delete_category      *)
(* checks and deletes them in commits of their own.                        *)
LinksHaveCategory ==
    \A id \in Live : links[id].category \in cats \cup {NoCategory}
=============================================================================
