---------------------------- MODULE UpdateCheck ----------------------------
(***************************************************************************)
(* The hourly look for a new release: updater/scheduler.py (one iteration, *)
(* skipped while somebody has a page open), updater/github_client.py (the  *)
(* request with its ETag, the cached release, the file both are kept in)   *)
(* and _on_update_available() of __main__.py, which decides what the page  *)
(* offers.  GitHub tells a content by its ETag: here the content itself.   *)
(* An answer that comes without one leaves the old ETag beside the new     *)
(* release; GitHub sends it with every answer.                             *)
(***************************************************************************)
EXTENDS Naturals

CONSTANTS
    Tags,       \* tags that parse, in the order of their versions
    Untagged,   \* answers may come without an ETag
    Odd,        \* a tag or a version that does not parse, or is unknown
    None        \* no release, no ETag

\* Versions are ordered, and no tag is taken for something else.
CheckConstants == Untagged \in BOOLEAN /\ Tags \subseteq Nat /\ Odd \notin Tags /\ None \notin Tags \cup {Odd}

Content == [tag : Tags \cup {Odd}, prerelease : BOOLEAN]

VARIABLES
    github,     \* what /releases/latest holds
    page,       \* somebody is connected
    checker,    \* "boot", "asleep", or "asked"
    etag,       \* _etag
    cached,     \* _cached_release
    file,       \* the two of them on disk
    version,    \* current_version of the running process
    offered     \* available_update

vars == <<github, page, checker, etag, cached, file, version, offered>>

Init ==
    /\ github = None /\ page = FALSE
    /\ checker = "boot" /\ etag = None /\ cached = None
    /\ file = [etag |-> None, release |-> None]
    /\ version = Odd /\ offered = None

\* The owner of the repository publishes, marks, promotes or withdraws.
Publish ==
    /\ github' \in Content \cup {None}
    /\ UNCHANGED <<page, checker, etag, cached, file, version, offered>>

PageOpensOrCloses ==
    /\ page' = ~page
    /\ UNCHANGED <<github, checker, etag, cached, file, version, offered>>

\* A new process: the client loads its file, nothing is offered yet.
Boot ==
    /\ checker = "boot"
    /\ checker' = "asleep"
    /\ etag' = file.etag /\ cached' = file.release
    /\ offered' = None
    /\ version' \in Tags \cup {Odd}
    /\ UNCHANGED <<github, page, file>>

Ends ==
    /\ checker # "boot" /\ checker' = "boot"
    /\ UNCHANGED <<github, page, etag, cached, file, version, offered>>

\* An iteration is skipped while a page is connected.
Ask ==
    /\ checker = "asleep" /\ ~page
    /\ checker' = "asked"
    /\ UNCHANGED <<github, page, etag, cached, file, version, offered>>

Newer(tag) == tag # Odd /\ (version = Odd \/ tag > version)

\* Mutant: no release clears the offer, be it that none was found or no answer came.
OnUpdateClearing(release) ==
    offered' = IF release # None /\ Newer(release) THEN release ELSE None

\* No release leaves the offer as it is; one that is not newer clears it.
OnUpdate(release) ==
    offered' = IF release = None THEN offered ELSE IF Newer(release) THEN release ELSE None

\* new_etag or self._etag.
NewTag == {github} \cup IF Untagged THEN {etag} ELSE {}

\* Saving is best effort.
Keep(tag, release) ==
    /\ etag' = tag /\ cached' = release
    /\ file' \in {file, [etag |-> tag, release |-> release]}

\* Mutant: a prerelease leaves the cached release alone.
AnswerPrereleaseCached ==
    /\ github # None /\ etag # github /\ github.prerelease
    /\ \E tag \in NewTag : Keep(tag, cached)
    /\ OnUpdate(None)

AnswerPrerelease ==
    /\ github # None /\ etag # github /\ github.prerelease
    /\ \E tag \in NewTag : Keep(tag, None)
    /\ OnUpdate(None)

AnswerRelease ==
    /\ github # None /\ etag # github /\ ~github.prerelease
    /\ \E tag \in NewTag : Keep(tag, github.tag)
    /\ OnUpdate(github.tag)

AnswerNotModified ==
    /\ github # None /\ etag = github
    /\ OnUpdate(cached)
    /\ UNCHANGED <<etag, cached, file>>

\* 404, 403, 429, 5xx, a timeout, an answer that does not parse.
AnswerNothing ==
    /\ OnUpdate(None)
    /\ UNCHANGED <<etag, cached, file>>

Answered ==
    /\ checker = "asked" /\ checker' = "asleep"
    /\ AnswerPrerelease \/ AnswerRelease \/ AnswerNotModified
    /\ UNCHANGED <<github, page, version>>

Failed ==
    /\ checker = "asked" /\ checker' = "asleep"
    /\ AnswerNothing
    /\ UNCHANGED <<github, page, version>>

Next ==
    \/ Publish \/ PageOpensOrCloses
    \/ Boot \/ Ends
    \/ Ask \/ Answered \/ Failed

Spec == Init /\ [][Next]_vars

\* Sleeps end, requests have a timeout, and some of them are answered.
FairSpec ==
    /\ Spec
    /\ WF_vars(Boot) /\ WF_vars(Ask) /\ SF_vars(Answered) /\ WF_vars(Answered \/ Failed)

TypeOK ==
    /\ github \in Content \cup {None} /\ page \in BOOLEAN
    /\ checker \in {"boot", "asleep", "asked"}
    /\ etag \in Content \cup {None} /\ cached \in Tags \cup {Odd, None}
    /\ file \in [etag : Content \cup {None}, release : Tags \cup {Odd, None}]
    /\ version \in Tags \cup {Odd} /\ offered \in Tags \cup {Odd, None}

\* What an ETag stands for.
Release(tag) == IF tag = None \/ tag.prerelease THEN None ELSE tag.tag

\* "Not modified" is answered from the cache: the cached release is the one of
\* the ETag, in memory and on disk, over prereleases, withdrawn releases,
\* failed saves and restarts, if every answer of GitHub carries its ETag.
TagMatchesCache ==
    ~Untagged =>
        /\ cached = Release(etag)
        /\ file.release = Release(file.etag)

\* In a world that comes to rest (no page open, no restart), the page ends up
\* offering the latest release if that is newer than what runs, and nothing if
\* it is not; failures in between do not take the offer away.  The latest
\* release being a prerelease, or none, leaves what was offered.  Every answer
\* carries its ETag here too.
OfferFollows ==
    ~Untagged => \A r \in Tags \cup {Odd} :
        <>[](github = [tag |-> r, prerelease |-> FALSE] /\ ~page /\ checker # "boot")
            => <>[](offered = IF Newer(r) THEN r ELSE None)
=============================================================================
