----------------------------- MODULE AuthTable -----------------------------
(***************************************************************************)
(* The table of AutograderService.initAuthFuncs: which checks a call of    *)
(* each method goes through, and what the method's request and handler     *)
(* look like to them.                                                      *)
(***************************************************************************)
EXTENDS Sequences

Open == {"Login", "SignUp", "ResetPassword", "GithubLogin"}
Captcha == {"RequestPasswordReset", "RequestSignUpToken"}
Personal == {"GetCourseList", "GetUser", "BindGithub", "UnbindGithub", "UpdateUser",
             "UpdatePassword", "JoinCourse"}
Uploads == {"InitUpload", "DeleteFileInManifest"}
Administration == {"GetAllGraders", "SearchUser", "SetAdmin", "CreateCourse", "GetAllUsers",
                   "GetAllCourses", "RemoveGrader", "GetGradeQueue"}
CourseReads == {"GetAssignment", "GetAssignmentsInCourse", "GetSubmissionsInAssignment",
                "GetLeaderboard", "HasLeaderboard", "GetCourse"}
Submitting == {"CreateSubmission", "CreateManifest"}
CourseWrites ==
  {"CreateAssignment", "GetCourseMembers", "RemoveCourseMembers", "AddCourseMembers",
   "UpdateCourse", "UpdateAssignment", "UpdateCourseMember", "CanWriteCourse",
   "GenerateJoinCode", "ChangeAllowsJoinCourse", "InspectAllSubmissionsInAssignment",
   "InspectUserSubmissionHistory", "RegradeSubmission", "RegradeAssignment",
   "ChangeLeaderboardAnonymous", "ExportAssignmentGrades", "DeleteLeaderboard"}
SubmissionReads == {"InitDownload", "GetFilesInSubmission", "GetSubmissionReport",
                    "SubscribeSubmission", "CancelSubmission", "StreamLog"}
Activation == {"ActivateSubmission"}

Methods == UNION {Open, Captcha, Personal, Uploads, Administration, CourseReads, Submitting,
                  CourseWrites, SubmissionReads, Activation}

\* Mutant: the membership is checked before the course is known.
InCourseSwapped == <<"RequireLogin", "RequireInCourse", "GetCourseId">>

\* The chain of every method about a course begins with these.
InCourse == <<"RequireLogin", "GetCourseId", "RequireInCourse">>

\* initAuthFuncs; a method it does not list has no chain and is refused.
AuthFuncs(m) ==
  CASE m \in Open            -> <<"NoopAuth">>
    [] m \in Captcha         -> <<"RequireCaptcha">>
    [] m \in Personal        -> <<"RequireLogin">>
    [] m \in Uploads         -> <<"RequireLogin", "CheckManifest">>
    [] m \in Administration  -> <<"RequireLogin", "RequireAdmin">>
    [] m \in CourseReads     -> InCourse
    [] m \in Submitting      -> InCourse \o <<"NotAfterDueDate">>
    [] m \in CourseWrites    -> InCourse \o <<"RequireCourseWrite">>
    [] m \in SubmissionReads -> InCourse \o <<"RequireSubmissionRead">>
    [] m \in Activation      -> InCourse \o <<"RequireSubmissionRead", "NotAfterDueDate">>
    [] OTHER                 -> <<>>

\* The methods whose request names an assignment, and a submission.
AssignmentRequests ==
  {"GetAssignment", "GetSubmissionsInAssignment", "GetLeaderboard", "HasLeaderboard",
   "CreateSubmission", "CreateManifest", "UpdateAssignment", "InspectAllSubmissionsInAssignment",
   "InspectUserSubmissionHistory", "RegradeAssignment", "ChangeLeaderboardAnonymous",
   "ExportAssignmentGrades", "DeleteLeaderboard"}
SubmissionRequests == SubmissionReads \cup Activation \cup {"RegradeSubmission"}

\* Which object the request of a method names.
Names(m) ==
  CASE m \in AssignmentRequests -> "assignment"
    [] m \in SubmissionRequests -> "submission"
    [] m \in (CourseReads \cup CourseWrites) \ (AssignmentRequests \cup SubmissionRequests) -> "course"
    [] m \in Uploads -> "manifest"
    [] OTHER -> "none"

\* The context keys a handler takes without checking that they are there.
HandlerKeys(m) ==
  CASE m = "CreateSubmission" -> {"user", "member", "assignment", "course"}
    [] m = "CreateManifest" -> {"user", "assignment"}
    [] m = "GetLeaderboard" -> {"user", "member"}
    [] m \in {"GetCourse", "GetAssignment"} -> {"member"}
    [] m \in {"InspectAllSubmissionsInAssignment", "RegradeAssignment",
              "ExportAssignmentGrades"} -> {"course"}
    [] m \in {"GetFilesInSubmission", "InitDownload", "ActivateSubmission",
              "RegradeSubmission"} -> {"submission"}
    [] m \in {"InitUpload", "GetSubmissionsInAssignment", "RemoveCourseMembers", "CreateCourse",
              "SetAdmin", "GetAssignmentsInCourse"} \cup Personal -> {"user"}
    [] OTHER -> {}
=============================================================================
